---- MODULE Spec2Model ----
(***************************************************************************)
(* A model of voxgig_struct (src/py/voxgig_struct/voxgig_struct.py): the   *)
(* injection engine and the transform / validate / select operations      *)
(* built on it.                                                            *)
(*                                                                         *)
(* Python values are modelled with reference semantics.  A value (Val) is  *)
(* a pair <<tag, payload>>: scalars carry their payload, a list or a dict  *)
(* is <<"ref", a>> where a is an address in a heap of nodes.  A heap node  *)
(* is <<"list", items>> or <<"map", entries>>, the entries of a dict being *)
(* <<key, value>> pairs in insertion order, as in a Python dict.  Every    *)
(* function of the library that mutates its arguments is an operator from  *)
(* a heap to a heap.  A Tree is the same value with the nodes in line; it  *)
(* is what the caller passes in and reads back.                            *)
(***************************************************************************)
EXTENDS Integers, Sequences, FiniteSets, TLC

VARIABLES
    callOp,    \* the public operation the caller calls
    pc,        \* "call" before the operation ran, "done" after
    argData,   \* the caller's data argument (a Tree)
    argSpec,   \* the caller's spec / shape / query argument (a Tree)
    argErrs,   \* validate: TRUE when the caller passes an errs list in injdef
    retVal,    \* the value the operation returned (a Tree)
    retErrs,   \* the errors recorded by the run, in order
    raised,    \* "" or the exception the call raised
    dataAfter, \* the caller's data object after the call
    specAfter, \* the caller's spec object after the call
    raisedMsg, \* the message of the exception raised, "" where none is modelled
    trace,     \* the steps the loop of inject took during the call, in order
    topAfter,  \* what the root holder of inject holds under $TOP when inject returns
    retIsArg   \* inject: TRUE when the node returned is the caller's val itself

vars == <<callOp, pc, argData, argSpec, argErrs, retVal, retErrs, raised,
          dataAfter, specAfter, raisedMsg, trace, topAfter, retIsArg>>

-----------------------------------------------------------------------------
(* Values *)

\* UNDEF = None (line 86).
UNDEF == <<"null", 0>>

\* The sentinel for a key that is None (getelem(path, -2) at the root).
UndefKey == "<undef-key>"

Bool(b) == <<"bool", b>>
Num(n) == <<"num", n>>
Str(s) == <<"str", s>>
Fn(name) == <<"fn", name>>
Ref(a) == <<"ref", a>>

Tag(v) == v[1]
Payload(v) == v[2]

\* A local name for a value: v is computed first, as an assignment computes
\* its right-hand side, and Body is then given the value under its name.
Let(v, Body(_)) == IF v = v THEN Body(v) ELSE Body(v)

\* Python's == on two values neither of which is a node: True == 1 and
\* False == 0, since bool is a subclass of int.
AsInt(v) == IF Tag(v) = "bool" THEN (IF Payload(v) THEN 1 ELSE 0) ELSE Payload(v)

PyEqScalar(a, b) ==
    IF Tag(a) \in {"bool", "num"} /\ Tag(b) \in {"bool", "num"}
    THEN AsInt(a) = AsInt(b)
    ELSE a = b

-----------------------------------------------------------------------------
(* Keys and their order *)

\* The keys of the model in Python's sort order (code point order): '$', then
\* digits, upper case, the backquote, lower case.  A string of the model
\* writes ^ where the Python string has a backquote.
KeyOrder ==
    << "", "$KEY", "$SPEC", "$TOP", "$UPPER", "0", "1", "2", "3", "4", "5", "6", "7", "8", "9",
       "KEY", "__d",
       "^$AND^", "^$CHILD^", "^$COPY^", "^$DELETE^", "^$EACH^", "^$EXACT^",
       "^$GTE^", "^$GT^", "^$KEY^", "^$LIKE^", "^$LTE^", "^$LT^",
       "^$MERGE^", "^$META^", "^$NOT^", "^$ONE^", "^$OPEN^", "^$OR^", "^$SKIP^",
       "^$STRING^",
       "a", "b", "c", "x", "x$", "y", "z" >>

Rank(k) == CHOOSE i \in 1..Len(KeyOrder) : KeyOrder[i] = k

\* str(i) for a list index i.
IdxStr(i) == ToString(i)

IsIntStr(k) == \E i \in 0..9 : ToString(i) = k

\* int(k) for a key that parses as an integer.
StrInt(k) == CHOOSE i \in 0..9 : ToString(i) = k

\* sorted(keys): insertion sort by Rank.
RECURSIVE InsertKey(_, _)
InsertKey(k, s) ==
    IF s = <<>> THEN <<k>>
    ELSE IF Rank(k) <= Rank(Head(s)) THEN <<k>> \o s
    ELSE <<Head(s)>> \o InsertKey(k, Tail(s))

RECURSIVE SortKeys(_)
SortKeys(s) == IF s = <<>> THEN <<>> ELSE InsertKey(Head(s), SortKeys(Tail(s)))

\* The names a store holds commands under.
CmdNames ==
    { "$DELETE", "$COPY", "$KEY", "$META", "$MERGE", "$EACH", "$PACK", "$REF",
      "$STRING", "$NUMBER", "$BOOLEAN", "$OBJECT", "$ARRAY", "$FUNCTION",
      "$ANY", "$CHILD", "$ONE", "$EXACT", "$BT", "$DS", "$WHEN",
      "$AND", "$OR", "$NOT", "$GT", "$LT", "$GTE", "$LTE", "$LIKE", "$UPPER" }

\* The texts found between two backquotes in the strings of the model.
PathRefs ==
    CmdNames \cup { "$OPEN", "$SKIP", "$TOP", "a", "b", "c", "x", "a.b", "a.x", "x.y",
                    ".a", "..a", "...a" }

\* '$' in s (S_DS in s, lines 1144, 1994): the strings of the model that
\* hold a dollar sign.
DollarStrs ==
    { p \in PathRefs : p \notin { "a", "b", "c", "x", "a.b", "a.x", "x.y", ".a", "..a", "...a" } }
    \cup { "^" \o p \o "^" : p \in { q \in PathRefs : q \notin
                { "a", "b", "c", "x", "a.b", "a.x", "x.y", ".a", "..a", "...a" } } }
    \cup { "x$", "co$t", "$ERRS", "$SPEC", "$", "a$$", "$$", "a$=x", "a$~x" }

HasDollar(s) == s \in DollarStrs

-----------------------------------------------------------------------------
(* The heap *)

NodeKind(h, v) == IF Tag(v) = "ref" THEN h[Payload(v)][1] ELSE "none"
NodeItems(h, v) == h[Payload(v)][2]

isnode(h, v) == Tag(v) = "ref"
ismap(h, v) == NodeKind(h, v) = "map"
islist(h, v) == NodeKind(h, v) = "list"
isfunc(v) == Tag(v) = "fn"

iskey(k) == k # UndefKey /\ k # ""

strkey(k) == IF k = UndefKey THEN "" ELSE k

\* The position of key k in the entries of a dict, 0 when it has none.
EntryIdx(entries, k) ==
    IF \E i \in 1..Len(entries) : entries[i][1] = k
    THEN CHOOSE i \in 1..Len(entries) : entries[i][1] = k
    ELSE 0

\* A sequence written as a function, as the tuple it is equal to.
AsSeq(f) == SubSeq(f, 1, Len(f))

EntryKeys(entries) == AsSeq([i \in 1..Len(entries) |-> entries[i][1]])

RemoveAt(s, i) == SubSeq(s, 1, i - 1) \o SubSeq(s, i + 1, Len(s))

SetNode(h, v, items) == [h EXCEPT ![Payload(v)] = <<h[Payload(v)][1], items>>]

\* A new node: the heap with it, and the reference to it.
Alloc(h, kind, items) == [h |-> Append(h, <<kind, items>>), v |-> Ref(Len(h) + 1)]

typify(h, v) ==
    CASE Tag(v) = "null" -> "null"
      [] Tag(v) = "bool" -> "boolean"
      [] Tag(v) = "num" -> "number"
      [] Tag(v) = "str" -> "string"
      [] Tag(v) = "fn" -> "function"
      [] islist(h, v) -> "array"
      [] OTHER -> "object"

getprop(h, val, key, alt) ==
    IF val = UNDEF \/ key = UndefKey THEN alt
    ELSE IF ismap(h, val) THEN
        LET es == NodeItems(h, val)
            i == EntryIdx(es, key)
        IN  IF i = 0 \/ es[i][2] = UNDEF THEN alt ELSE es[i][2]
    ELSE IF islist(h, val) THEN
        IF IsIntStr(key) /\ StrInt(key) < Len(NodeItems(h, val))
        THEN NodeItems(h, val)[StrInt(key) + 1]
        ELSE alt
    ELSE alt

\* getelem(s, -n, alt): the n-th element from the end.
getelem(s, n, alt) == IF n <= Len(s) /\ n >= 1 THEN s[Len(s) + 1 - n] ELSE alt

haskey(h, val, key) == getprop(h, val, key, UNDEF) # UNDEF

keysof(h, val) ==
    IF ~isnode(h, val) THEN <<>>
    ELSE IF ismap(h, val) THEN SortKeys(EntryKeys(NodeItems(h, val)))
    ELSE AsSeq([i \in 1..Len(NodeItems(h, val)) |-> IdxStr(i - 1)])

\* setprop mutates parent: the heap after it.
setprop(h, parent, key, val) ==
    IF ~iskey(key) THEN h
    ELSE IF ismap(h, parent) THEN
        LET es == NodeItems(h, parent)
            i == EntryIdx(es, key)
        IN  IF val = UNDEF
            THEN (IF i = 0 THEN h ELSE SetNode(h, parent, RemoveAt(es, i)))
            ELSE IF i = 0 THEN SetNode(h, parent, Append(es, <<key, val>>))
            ELSE SetNode(h, parent, [es EXCEPT ![i] = <<key, val>>])
    ELSE IF islist(h, parent) THEN
        LET xs == NodeItems(h, parent) IN
        IF ~IsIntStr(key) THEN h
        ELSE LET ki == StrInt(key) IN
            IF val = UNDEF
            THEN (IF ki < Len(xs) THEN SetNode(h, parent, RemoveAt(xs, ki + 1)) ELSE h)
            ELSE IF ki >= Len(xs) THEN SetNode(h, parent, Append(xs, val))
            ELSE SetNode(h, parent, [xs EXCEPT ![ki + 1] = val])
    ELSE h

delprop(h, parent, key) ==
    IF ~iskey(key) THEN h
    ELSE IF ismap(h, parent) THEN
        LET es == NodeItems(h, parent)
            i == EntryIdx(es, key)
        IN  IF i = 0 THEN h ELSE SetNode(h, parent, RemoveAt(es, i))
    ELSE IF islist(h, parent) THEN
        LET xs == NodeItems(h, parent) IN
        IF IsIntStr(key) /\ StrInt(key) < Len(xs)
        THEN SetNode(h, parent, RemoveAt(xs, StrInt(key) + 1))
        ELSE h
    ELSE h

-----------------------------------------------------------------------------
(* Trees: the values the caller holds, and their image in the heap *)

IsLeaf(t) == Tag(t) \notin {"list", "map"}

\* The tree t built in the heap: the heap after it, and the value for it.
RECURSIVE Load(_, _)
RECURSIVE LoadList(_, _, _)
RECURSIVE LoadMap(_, _, _)

Load(h, t) ==
    IF IsLeaf(t) THEN [h |-> h, v |-> t]
    ELSE IF Tag(t) = "list" THEN
        LET r == LoadList(h, Payload(t), <<>>) IN Alloc(r.h, "list", r.v)
    ELSE
        LET r == LoadMap(h, Payload(t), <<>>) IN Alloc(r.h, "map", r.v)

LoadList(h, ts, acc) ==
    IF ts = <<>> THEN [h |-> h, v |-> acc]
    ELSE LET r == Load(h, Head(ts)) IN LoadList(r.h, Tail(ts), Append(acc, r.v))

LoadMap(h, es, acc) ==
    IF es = <<>> THEN [h |-> h, v |-> acc]
    ELSE LET r == Load(h, Head(es)[2])
         IN  LoadMap(r.h, Tail(es), Append(acc, <<Head(es)[1], r.v>>))

\* The tree a value stands for.
RECURSIVE Deref(_, _)
Deref(h, v) ==
    IF Tag(v) # "ref" THEN v
    ELSE LET items == NodeItems(h, v) IN
        IF islist(h, v)
        THEN <<"list", AsSeq([i \in 1..Len(items) |-> Deref(h, items[i])])>>
        ELSE <<"map", AsSeq([i \in 1..Len(items) |-> <<items[i][1], Deref(h, items[i][2])>>])>>

\* Structural equality ignores the order of the keys of a map: Norm sorts them.
RECURSIVE InsertEntry(_, _)
InsertEntry(e, s) ==
    IF s = <<>> THEN <<e>>
    ELSE IF Rank(e[1]) <= Rank(Head(s)[1]) THEN <<e>> \o s
    ELSE <<Head(s)>> \o InsertEntry(e, Tail(s))

RECURSIVE SortEntries(_)
SortEntries(s) == IF s = <<>> THEN <<>> ELSE InsertEntry(Head(s), SortEntries(Tail(s)))

RECURSIVE Norm(_)
Norm(t) ==
    IF IsLeaf(t) THEN t
    ELSE IF Tag(t) = "list"
    THEN <<"list", AsSeq([i \in 1..Len(Payload(t)) |-> Norm(Payload(t)[i])])>>
    ELSE <<"map", SortEntries(AsSeq([i \in 1..Len(Payload(t)) |->
                    <<Payload(t)[i][1], Norm(Payload(t)[i][2])>>]))>>

TreeEq(a, b) == Norm(a) = Norm(b)

\* Python's == on two values (lists by position, dicts by key, True == 1).
RECURSIVE PyEqTree(_, _)
PyEqTree(a, b) ==
    IF IsLeaf(a) /\ IsLeaf(b) THEN PyEqScalar(a, b)
    ELSE IF IsLeaf(a) \/ IsLeaf(b) \/ Tag(a) # Tag(b) THEN FALSE
    ELSE LET x == Payload(Norm(a))
             y == Payload(Norm(b))
         IN  /\ Len(x) = Len(y)
             /\ IF Tag(a) = "list"
                THEN \A i \in 1..Len(x) : PyEqTree(x[i], y[i])
                ELSE \A i \in 1..Len(x) : x[i][1] = y[i][1] /\ PyEqTree(x[i][2], y[i][2])

PyEq(h, a, b) == PyEqTree(Deref(h, a), Deref(h, b))

RECURSIVE HasFn(_)
HasFn(t) ==
    IF IsLeaf(t) THEN Tag(t) = "fn"
    ELSE IF Tag(t) = "list" THEN \E i \in 1..Len(Payload(t)) : HasFn(Payload(t)[i])
    ELSE \E i \in 1..Len(Payload(t)) : HasFn(Payload(t)[i][2])

\* f'`$FUNCTION:{n}`': the string that stands for the n-th function of a value
\* in the JSON text of its clone; the strings the regular expression of
\* reviver takes for one, and the index it reads from them.
FunctionRef(n) == "^$FUNCTION:" \o ToString(n) \o "^"
IsFunctionRef(s) == \E n \in 0..9 : s = FunctionRef(n)
FunctionIdx(s) == CHOOSE n \in 0..9 : s = FunctionRef(n)

\* replacer: the tree with every function replaced by its string, and refs,
\* the functions in the order they were met.
RECURSIVE replacer(_, _)
RECURSIVE replacerItems(_, _, _, _)
replacer(t, refs) ==
    IF Tag(t) = "fn" THEN [v |-> Str(FunctionRef(Len(refs))), refs |-> Append(refs, t)]
    ELSE IF IsLeaf(t) THEN [v |-> t, refs |-> refs]
    ELSE replacerItems(Tag(t), Payload(t), <<>>, refs)

replacerItems(kind, its, acc, refs) ==
    IF its = <<>> THEN [v |-> <<kind, acc>>, refs |-> refs]
    ELSE Let(replacer(IF kind = "list" THEN Head(its) ELSE Head(its)[2], refs), LAMBDA r :
         replacerItems(kind, Tail(its),
                       Append(acc, IF kind = "list" THEN r.v ELSE <<Head(its)[1], r.v>>),
                       r.refs))

\* reviver: every string that reads as the string of a function is replaced
\* by refs[index]; an index that refs does not have raises IndexError.
RECURSIVE revivable(_, _)
revivable(t, refs) ==
    IF Tag(t) = "str" THEN IsFunctionRef(Payload(t)) => FunctionIdx(Payload(t)) < Len(refs)
    ELSE IF IsLeaf(t) THEN TRUE
    ELSE IF Tag(t) = "list" THEN \A i \in 1..Len(Payload(t)) : revivable(Payload(t)[i], refs)
    ELSE \A i \in 1..Len(Payload(t)) : revivable(Payload(t)[i][2], refs)

RECURSIVE reviver(_, _)
reviver(t, refs) ==
    IF Tag(t) = "str"
    THEN (IF IsFunctionRef(Payload(t)) THEN refs[FunctionIdx(Payload(t)) + 1] ELSE t)
    ELSE IF IsLeaf(t) THEN t
    ELSE IF Tag(t) = "list"
    THEN <<"list", AsSeq([i \in 1..Len(Payload(t)) |-> reviver(Payload(t)[i], refs)])>>
    ELSE <<"map", AsSeq([i \in 1..Len(Payload(t)) |->
                            <<Payload(t)[i][1], reviver(Payload(t)[i][2], refs)>>])>>

\* clone that hands back the value it was given: the same node, no copy.
cloneAlias(h, v) == [h |-> h, v |-> v, exc |-> ""]

\* clone: a copy through JSON text. replacer puts a string in the place of
\* every function, json.dumps and json.loads make new lists and dicts of the
\* text (a string, a number, a boolean and null are read back as written),
\* and reviver puts the functions back by reference.
clone(h, v) ==
    IF v = UNDEF THEN [h |-> h, v |-> UNDEF, exc |-> ""]
    ELSE Let(replacer(Deref(h, v), <<>>), LAMBDA t :
         IF ~revivable(t.v, t.refs) THEN [h |-> h, v |-> UNDEF, exc |-> "IndexError"]
         ELSE Let(Load(h, reviver(t.v, t.refs)), LAMBDA r :
              [h |-> r.h, v |-> r.v, exc |-> ""]))

-----------------------------------------------------------------------------
(* Text *)

RECURSIVE Join(_, _)
Join(parts, sep) ==
    IF parts = <<>> THEN ""
    ELSE IF Len(parts) = 1 THEN parts[1]
    ELSE parts[1] \o sep \o Join(Tail(parts), sep)

\* json.dumps(t, separators=(',', ':')); q is the quote written around
\* strings and keys: "\"" for JSON, "" for stringify, which strips them.
RECURSIVE JsonText(_, _)
JsonText(t, q) ==
    CASE Tag(t) = "null" -> "null"
      [] Tag(t) = "bool" -> (IF Payload(t) THEN "true" ELSE "false")
      [] Tag(t) = "num" -> ToString(Payload(t))
      [] Tag(t) = "str" -> q \o Payload(t) \o q
      [] Tag(t) = "fn" -> "<function " \o Payload(t) \o ">"
      [] Tag(t) = "list" ->
            "[" \o Join([i \in 1..Len(Payload(t)) |-> JsonText(Payload(t)[i], q)], ",") \o "]"
      [] OTHER ->
            "{" \o Join([i \in 1..Len(Payload(t)) |->
                    q \o Payload(t)[i][1] \o q \o ":" \o JsonText(Payload(t)[i][2], q)], ",") \o "}"

\* str(t), which stringify falls back to when json.dumps raises on a function.
RECURSIVE PyStr(_)
PyStr(t) ==
    CASE Tag(t) = "null" -> "None"
      [] Tag(t) = "bool" -> (IF Payload(t) THEN "True" ELSE "False")
      [] Tag(t) = "num" -> ToString(Payload(t))
      [] Tag(t) = "str" -> "'" \o Payload(t) \o "'"
      [] Tag(t) = "fn" -> "<function " \o Payload(t) \o ">"
      [] Tag(t) = "list" ->
            "[" \o Join([i \in 1..Len(Payload(t)) |-> PyStr(Payload(t)[i])], ", ") \o "]"
      [] OTHER ->
            "{" \o Join([i \in 1..Len(Payload(t)) |->
                    "'" \o Payload(t)[i][1] \o "': " \o PyStr(Payload(t)[i][2])], ", ") \o "}"

\* stringify(val) with no maxlen.
stringifyTree(t) ==
    IF t = UNDEF THEN ""
    ELSE IF Tag(t) = "str" THEN Payload(t)
    ELSE IF HasFn(t) THEN PyStr(t)
    ELSE JsonText(Norm(t), "")

stringify(h, v) == stringifyTree(Deref(h, v))

\* pathify(path, startin, endin) for a path that is a list of keys.
SubSeqFrom(s, start, end) == SubSeq(s, start + 1, Len(s) - end)

\* str(p).replace('.', '') for a key p.
DotStrs == { "a.b", "a.x", "x.y" }
Undot(p) ==
    CASE p = "a.b" -> "ab"
      [] p = "a.x" -> "ax"
      [] p = "x.y" -> "xy"
      [] OTHER -> p

pathify(path, startin, endin) ==
    LET p == SubSeqFrom(path, startin, endin) IN
    IF p = <<>> THEN "<root>"
    ELSE LET f == SelectSeq(p, iskey)
         IN  Join([i \in 1..Len(f) |-> Undot(f[i])], ".")

-----------------------------------------------------------------------------
(* Small utilities *)

\* Python's truth value of a value (if x: ...).
Truthy(h, v) ==
    CASE Tag(v) = "null" -> FALSE
      [] Tag(v) = "bool" -> Payload(v)
      [] Tag(v) = "num" -> Payload(v) # 0
      [] Tag(v) = "str" -> Payload(v) # ""
      [] Tag(v) = "fn" -> TRUE
      [] OTHER -> NodeItems(h, v) # <<>>

size(h, v) ==
    CASE Tag(v) = "ref" -> Len(NodeItems(h, v))
      [] Tag(v) = "num" -> Payload(v)
      [] Tag(v) = "bool" -> (IF Payload(v) THEN 1 ELSE 0)
      [] OTHER -> 0

isempty(h, v) ==
    \/ v = UNDEF
    \/ v = Str("")
    \/ (isnode(h, v) /\ NodeItems(h, v) = <<>>)

\* items(val): the (key, value) pairs of a node, keys sorted for a map.
items(h, v) ==
    IF ismap(h, v) THEN
        LET ks == keysof(h, v)
            es == NodeItems(h, v)
        IN  AsSeq([i \in 1..Len(ks) |-> <<ks[i], es[EntryIdx(es, ks[i])][2]>>])
    ELSE IF islist(h, v) THEN
        AsSeq([i \in 1..Len(NodeItems(h, v)) |-> <<IdxStr(i - 1), NodeItems(h, v)[i]>>])
    ELSE <<>>

\* slice(s, 0, -n) of a list s.
sliceEnd(s, n) == IF Len(s) - n > 0 THEN SubSeq(s, 1, Len(s) - n) ELSE <<>>

\* R_DOUBLE_DOLLAR.sub('$', part): every "$$" becomes "$".
Undollar(part) ==
    CASE part = "a$$" -> "a$"
      [] part = "$$" -> "$"
      [] OTHER -> part

\* The walk of getpath along the parts of a path when no injection state is
\* given (lines 1022-1083 with injdef UNDEF): dparent is UNDEF.
RECURSIVE PathWalkPlain(_, _, _, _)
PathWalkPlain(h, val, parts, pI) ==
    IF pI > Len(parts) \/ val = UNDEF THEN val
    ELSE LET part == Undollar(parts[pI])
         IN  IF part = "" THEN UNDEF
             ELSE PathWalkPlain(h, getprop(h, val, part, UNDEF), parts, pI + 1)

\* getpath(store, path) for a path that is a list of keys and no injdef.
getpathList(h, store, parts) ==
    IF store = UNDEF \/ Len(parts) = 0 \/ (Len(parts) = 1 /\ parts[1] = "")
    THEN store
    ELSE LET first == IF Len(parts) = 1 THEN getprop(h, store, parts[1], UNDEF) ELSE store
         IN  IF isfunc(first) THEN first ELSE PathWalkPlain(h, store, parts, 1)

-----------------------------------------------------------------------------
(* walk and merge *)

\* cur[i] of merge's stack, UNDEF beyond its end; cI counts from 0.
CurGet(cur, cI) == IF cI + 1 <= Len(cur) THEN cur[cI + 1] ELSE UNDEF
CurSet(cur, cI, v) ==
    AsSeq([i \in 1..(IF cI + 1 > Len(cur) THEN cI + 1 ELSE Len(cur)) |->
            IF i = cI + 1 THEN v ELSE IF i <= Len(cur) THEN cur[i] ELSE UNDEF])

\* The merger callback of merge (lines 944-978); st.out is the merge target,
\* st.cur the stack of target nodes.
merger(h, st, key, val, parent, path) ==
    IF key = UndefKey THEN [h |-> h, st |-> st, v |-> val]
    ELSE
    LET cI == Len(path) - 1
        have == CurGet(st.cur, cI) # UNDEF
    IN
    Let(getpathList(h, st.out, SubSeq(path, 1, Len(path) - 1)), LAMBDA found :
    Let(IF have \/ isnode(h, found)
        THEN [h |-> h, v |-> IF have THEN CurGet(st.cur, cI) ELSE found]
        ELSE Alloc(h, IF islist(h, parent) THEN "list" ELSE "map", <<>>), LAMBDA a :
    Let(CurSet(st.cur, cI, a.v), LAMBDA cur1 :
    IF isnode(a.h, val) THEN
        Let(getprop(a.h, a.v, key, UNDEF) = UNDEF, LAMBDA missing :
        IF ~isempty(a.h, val) \/ missing THEN
            [h |-> setprop(a.h, a.v, key, IF missing THEN val ELSE CurGet(cur1, cI + 1)),
             st |-> [st EXCEPT !.cur = CurSet(cur1, cI + 1, UNDEF)],
             v |-> val]
        ELSE [h |-> a.h, st |-> [st EXCEPT !.cur = cur1], v |-> val])
    ELSE [h |-> setprop(a.h, a.v, key, val), st |-> [st EXCEPT !.cur = cur1], v |-> val])))

\* add_open, the callback select hands to walk (lines 705-708): every map of
\* the query is opened.
add_open(h, st, key, val, parent, path) ==
    [h |-> IF ismap(h, val)
           THEN setprop(h, val, "^$OPEN^", getprop(h, val, "^$OPEN^", Bool(TRUE)))
           ELSE h,
     st |-> st, v |-> val]

\* walklog, the callback a caller hands to walk to see what walk does: it
\* appends its arguments, as they are at the call, to the log st and returns
\* val.
walklog(h, st, key, val, parent, path) ==
    [h |-> h,
     st |-> Append(st, [key |-> key, val |-> Deref(h, val), parent |-> Deref(h, parent),
                        path |-> path]),
     v |-> val]

\* walk(val, apply, key, parent, path): apply is named by ap, its closure
\* variables are st.
\* The callback check_subref of transform_REF (lines 1576-1580): st is
\* hasSubRef.
check_subref(h, st, key, val, parent, path) ==
    [h |-> h, st |-> st \/ val = Str("^$REF^"), v |-> val]

RECURSIVE walk(_, _, _, _, _, _, _)
RECURSIVE walkItems(_, _, _, _, _, _)

\* apply(key, val, parent, path) for the callback named by ap.
apply(ap, h, st, key, val, parent, path) ==
    IF ap = "merger" THEN merger(h, st, key, val, parent, path)
    ELSE IF ap = "walklog" THEN walklog(h, st, key, val, parent, path)
    ELSE IF ap = "check_subref" THEN check_subref(h, st, key, val, parent, path)
    ELSE add_open(h, st, key, val, parent, path)

\* walk that applies the callback to a node before it descends to the
\* children of the node.
walkPre(h, val, ap, st, key, parent, path) ==
    Let(apply(ap, h, st, key, val, parent, path), LAMBDA r :
    Let(IF isnode(r.h, val) THEN walkItems(r.h, val, ap, r.st, items(r.h, val), path)
        ELSE [h |-> r.h, st |-> r.st], LAMBDA c :
        [h |-> c.h, st |-> c.st, v |-> r.v]))

walk(h, val, ap, st, key, parent, path) ==
    Let(IF isnode(h, val) THEN walkItems(h, val, ap, st, items(h, val), path)
        ELSE [h |-> h, st |-> st], LAMBDA r :
    apply(ap, r.h, r.st, key, val, parent, path))

walkItems(h, val, ap, st, its, path) ==
    IF its = <<>> THEN [h |-> h, st |-> st]
    ELSE Let(walk(h, Head(its)[2], ap, st, Head(its)[1], val, Append(path, Head(its)[1])),
             LAMBDA r :
         walkItems(setprop(r.h, val, Head(its)[1], r.v), val, ap, r.st, Tail(its), path))

\* merge(objs) for a list objs of values: the heap after it and the result.
RECURSIVE mergeFrom(_, _, _, _)
mergeFrom(h, out, objs, i) ==
    IF i > Len(objs) THEN [h |-> h, v |-> out]
    ELSE Let(clone(h, objs[i]), LAMBDA c :
         IF ~isnode(c.h, c.v) THEN mergeFrom(c.h, c.v, objs, i + 1)
         ELSE IF ~isnode(c.h, out) \/ NodeKind(c.h, c.v) # NodeKind(c.h, out)
         THEN mergeFrom(c.h, c.v, objs, i + 1)
         ELSE Let(walk(c.h, c.v, "merger", [out |-> out, cur |-> <<out>>],
                       UndefKey, UNDEF, <<>>), LAMBDA w :
              mergeFrom(w.h, out, objs, i + 1)))

merge(h, objs) ==
    IF Len(objs) = 0 THEN [h |-> h, v |-> UNDEF]
    ELSE IF Len(objs) = 1 THEN [h |-> h, v |-> objs[1]]
    ELSE mergeFrom(h, objs[1], objs, 2)

-----------------------------------------------------------------------------
(* Strings: what the regular expressions and split() make of them *)

\* full_re (line 2153): the whole string is one injection.
IsFull(s) == \E p \in PathRefs : s = "^" \o p \o "^"
FullRef(s) == CHOOSE p \in PathRefs : s = "^" \o p \o "^"

\* part_re (line 2154): the literal texts and the injections of a string
\* that is not one whole injection.
Segments(s) ==
    CASE s = "<^a^>" -> << [lit |-> "<"], [ref |-> "a"], [lit |-> ">"] >>
      [] s = "^a^^b^" -> << [ref |-> "a"], [ref |-> "b"] >>
      [] OTHER -> << [lit |-> s] >>

\* path.split('.')
Split(p) ==
    CASE p = "a.b" -> <<"a", "b">>
      [] p = "a.x" -> <<"a", "x">>
      [] p = "x.y" -> <<"x", "y">>
      [] p = ".a" -> <<"", "a">>
      [] p = "..a" -> <<"", "", "a">>
      [] p = "...a" -> <<"", "", "", "a">>
      [] p = "." -> <<"", "">>
      [] p = ".." -> <<"", "", "">>
      [] p = "..." -> <<"", "", "", "">>
      [] p = ".y" -> <<"", "y">>
      [] p = ".z" -> <<"", "z">>
      [] p = ".y.z" -> <<"", "y", "z">>
      [] p = "..x" -> <<"", "", "x">>
      [] p = "..z" -> <<"", "", "z">>
      [] p = "..x.y" -> <<"", "", "x", "y">>
      [] p = "...x" -> <<"", "", "", "x">>
      [] p = "....x" -> <<"", "", "", "", "x">>
      [] p = "x.y.z" -> <<"x", "y", "z">>
      [] OTHER -> <<p>>

\* ref.startswith('$')
StartsDollar(s) == s \in CmdNames \cup { "$OPEN", "$TOP", "$KEY", "$ERRS", "$SPEC", "$$" }

\* R_META_PATH (line 76): name$=rest or name$~rest.
MetaPaths == { "a$=x", "a$~x" }
IsMetaPath(s) == s \in MetaPaths
MetaName(s) == "a"
MetaOp(s) == IF s = "a$=x" THEN "=" ELSE "~"
MetaRest(s) == "x"

\* The key a value is used as: str(v) for a map, int(v) for a list.
KeyOfVal(v) ==
    CASE Tag(v) = "str" -> Payload(v)
      [] Tag(v) = "num" -> ToString(Payload(v))
      [] Tag(v) = "bool" -> (IF Payload(v) THEN "True" ELSE "False")
      [] OTHER -> UndefKey

-----------------------------------------------------------------------------
(* The record of the steps of inject *)

\* The model records the steps of the loop of inject (lines 1156-1189) in
\* the first cell of the heap, when the caller has put one there; no value
\* refers to that cell, so the library code never reads it.
TraceHeap == << <<"log", <<>> >> >>
Tracing(h) == Len(h) > 0 /\ h[1][1] = "log"
TraceOf(h) == IF Tracing(h) THEN h[1][2] ELSE <<>>
Log(h, e) == IF Tracing(h) THEN [h EXCEPT ![1] = <<"log", Append(h[1][2], e)>>] ELSE h

\* One step: the phase that starts ("null" when the key:pre phase has
\* returned null and the loop leaves the child), the node whose children the loop is
\* going through and whether it is a list or a map, the key of the child
\* (keys[keyI]), the index keyI, and of the child state as it is when the
\* phase starts: path, the length of nodes, the errs list and what it holds.
Step(h, inj, node, nodekey, nkI) ==
    [mode |-> inj.mode, node |-> node, kind |-> h[Payload(node)][1], key |-> nodekey,
     keyI |-> nkI, path |-> inj.path, nodes |-> Len(inj.nodes),
     errs |-> inj.errs, msgs |-> h[Payload(inj.errs)][2]]

-----------------------------------------------------------------------------
(* InjectState *)

\* A result of a step of the injection: the heap, the exception raised (""
\* for none), the injection state as the step left it, the value returned.
Res(h, exc, inj, out) == [h |-> h, exc |-> exc, inj |-> inj, out |-> out]

NoFn == ""

\* InjectState.__init__ (lines 94-129).  prior is the state child() was
\* called on; the model keeps in priorDec what the commands have taken off
\* prior.keyI, and in active the references that transform_REF is injecting
\* in the calls this state is nested in.
InjectState(mode, full, keyI, keys, key, val, parent, path, nodes, handler, errs, meta, base, modify) ==
    [mode |-> mode, full |-> full, keyI |-> keyI, keys |-> keys, key |-> key,
     val |-> val, parent |-> parent, path |-> path, nodes |-> nodes,
     handler |-> handler, errs |-> errs, meta |-> meta, base |-> base,
     modify |-> modify, extra |-> UNDEF, dparent |-> UNDEF, dpath |-> <<"$TOP">>,
     active |-> {}, priorDec |-> 0]

\* InjectState.descend: the heap (meta is counted up) and the state after it.
descend(h, inj) ==
    LET d == getprop(h, inj.meta, "__d", Num(0))
        h1 == setprop(h, inj.meta, "__d", Num(Payload(d) + 1))
        parentkey == getelem(inj.path, 2, UndefKey)
    IN  IF inj.dparent = UNDEF THEN
            [h |-> h1,
             inj |-> IF Len(inj.dpath) > 1
                     THEN [inj EXCEPT !.dpath = Append(inj.dpath, parentkey)]
                     ELSE inj]
        ELSE IF parentkey # UndefKey THEN
            [h |-> h1,
             inj |-> [inj EXCEPT
                        !.dparent = getprop(h1, inj.dparent, parentkey, UNDEF),
                        !.dpath = IF getelem(inj.dpath, 1, UndefKey) = "$:" \o parentkey
                                  THEN sliceEnd(inj.dpath, 1)
                                  ELSE Append(inj.dpath, parentkey)]]
        ELSE [h |-> h1, inj |-> inj]

\* keys[keyI] of a Python list: a negative index counts from the end.
KeyAt(keys, keyI) == IF keyI < 0 THEN keys[Len(keys) + keyI + 1] ELSE keys[keyI + 1]

\* InjectState.child
child(h, inj, keyI, keys) ==
    LET key == strkey(KeyAt(keys, keyI)) IN
    [ InjectState(inj.mode, inj.full, keyI, keys, key,
                  getprop(h, inj.val, key, UNDEF), inj.val,
                  Append(inj.path, key), Append(inj.nodes, inj.val),
                  inj.handler, inj.errs, inj.meta, inj.base, inj.modify)
      EXCEPT !.dpath = inj.dpath, !.dparent = inj.dparent, !.active = inj.active ]

\* InjectState.setval: the heap after it.
setval(h, inj, val, ancestor) ==
    IF ancestor < 2 THEN setprop(h, inj.parent, inj.key, val)
    ELSE setprop(h, getelem(inj.nodes, ancestor, UNDEF),
                 getelem(inj.path, ancestor, UndefKey), val)

\* An errs list that takes a new error at its head.
PrependErr(h, inj, msg) == SetNode(h, inj.errs, <<Str(msg)>> \o NodeItems(h, inj.errs))

\* errs.append(msg)
AppendErr(h, inj, msg) == SetNode(h, inj.errs, Append(NodeItems(h, inj.errs), Str(msg)))

-----------------------------------------------------------------------------
(* getpath and the handlers *)

\* SKIP (line 87), tested by identity.
SKIP == <<"skip", 0>>

\* A part of a path that is not a string: re.sub raises TypeError on it.
NonStr == "<non-str>"
RAISE == <<"raise", "TypeError">>

\* The parts of a path: of a string, of a number, of a list of values.
PathParts(h, path) ==
    IF Tag(path) = "str" THEN Split(Payload(path))
    ELSE IF Tag(path) = "num" THEN <<ToString(Payload(path))>>
    ELSE AsSeq([i \in 1..Len(NodeItems(h, path)) |->
                IF Tag(NodeItems(h, path)[i]) = "str" THEN Payload(NodeItems(h, path)[i])
                ELSE NonStr])

\* pathify(path) for the path handed to getpath.
pathifyVal(h, path) ==
    IF Tag(path) \in {"str", "num"} THEN pathify(<<KeyOfVal(path)>>, 0, 0)
    ELSE LET f == SelectSeq(NodeItems(h, path),
                    LAMBDA v : Tag(v) = "num" \/ (Tag(v) = "str" /\ Payload(v) # ""))
         IN  IF NodeItems(h, path) = <<>> THEN "<root>"
             ELSE Join([i \in 1..Len(f) |-> Undot(KeyOfVal(f[i]))], ".")

\* A call of the engine from inside the engine, by the name of the function
\* called and the tuple of its arguments; it is defined after the functions.
RECURSIVE Call(_, _)

\* A count of empty parts that sees none: no path ascends.
AscendsNone(parts, pI) == 0

\* The number of empty parts that follow part pI.
RECURSIVE Ascends(_, _)
Ascends(parts, pI) ==
    IF pI + 1 <= Len(parts) /\ parts[pI + 1] = "" THEN 1 + Ascends(parts, pI + 1) ELSE 0

\* The loop of getpath over the parts (lines 1038-1083) with an injection
\* state; pI counts from 1.
RECURSIVE PathWalk(_, _, _, _, _, _)
PathWalk(h, store, val, parts, pI, inj) ==
    IF pI > Len(parts) \/ val = UNDEF THEN val
    ELSE IF parts[pI] = NonStr THEN RAISE
    ELSE Let(Undollar(IF parts[pI] = "$KEY" THEN inj.key ELSE parts[pI]), LAMBDA part :
        IF part = "" THEN
            Let(Ascends(parts, pI), LAMBDA run :
            LET pJ == pI + run
                asc == IF pJ = Len(parts) THEN run - 1 ELSE run
            IN  IF run > 0 /\ asc > 0 THEN
                    IF asc <= Len(inj.dpath)
                    THEN getpathList(h, store,
                            sliceEnd(inj.dpath, asc) \o SubSeq(parts, pJ + 1, Len(parts)))
                    ELSE UNDEF
                ELSE PathWalk(h, store, inj.dparent, parts, pI + 1, inj))
        ELSE PathWalk(h, store, getprop(h, val, part, UNDEF), parts, pI + 1, inj))

\* getpath(store, path, inj) with an injection state; path is a value.
\* What getpath finds before the handler sees it; early is the return of
\* the source itself, which the handler never sees.
getpathFind(h, store, path, inj) ==
    Let(PathParts(h, path), LAMBDA parts :
    Let(IF inj.base # "" THEN getprop(h, store, inj.base, store) ELSE store, LAMBDA src :
    IF store = UNDEF \/ Len(parts) = 0 \/ (Len(parts) = 1 /\ parts[1] = "")
    THEN [early |-> TRUE, val |-> src]
    ELSE
    Let(IF Len(parts) = 1
        THEN getprop(h, store, IF parts[1] = NonStr
                               THEN KeyOfVal(NodeItems(h, path)[1])
                               ELSE parts[1], UNDEF)
        ELSE store, LAMBDA first :
    Let(IsMetaPath(parts[1]) /\ Truthy(h, inj.meta), LAMBDA ismeta :
    Let(IF isfunc(first) THEN first
        ELSE IF parts[1] = NonStr /\ Truthy(h, NodeItems(h, path)[1]) THEN RAISE
        ELSE PathWalk(h, store,
                      IF ismeta THEN getprop(h, inj.meta, MetaName(parts[1]), UNDEF) ELSE src,
                      IF ismeta THEN [parts EXCEPT ![1] = MetaRest(parts[1])] ELSE parts,
                      1, inj), LAMBDA val :
    [early |-> FALSE, val |-> val])))))

getpath(h, store, path, inj) ==
    IF Tag(path) \notin {"str", "num"} /\ ~islist(h, path) THEN Res(h, "", inj, UNDEF)
    ELSE
    Let(getpathFind(h, store, path, inj), LAMBDA f :
    IF f.early THEN Res(h, "", inj, f.val)
    ELSE IF f.val = RAISE THEN Res(h, "TypeError", inj, UNDEF)
    ELSE IF inj.handler = NoFn THEN Res(h, "", inj, f.val)
    ELSE Call("handler", <<h, inj, f.val, pathifyVal(h, path), store>>))

\* The text an injection inside a string is replaced by (lines 2199-2214).
PartText(h, found) ==
    IF found = UNDEF THEN ""
    ELSE IF Tag(found) = "str" THEN (IF Payload(found) = "__NULL__" THEN "null" ELSE Payload(found))
    ELSE IF HasFn(Deref(h, found)) THEN stringify(h, found)
    ELSE JsonText(Deref(h, found), "\"")

\* part_re.sub(partial, val): the segments of val from the left.
RECURSIVE partial(_, _, _, _, _)
partial(h, inj, segs, store, acc) ==
    IF segs = <<>> THEN Res(h, "", inj, acc)
    ELSE IF "lit" \in DOMAIN Head(segs)
    THEN partial(h, inj, Tail(segs), store, acc \o Head(segs).lit)
    ELSE Let(getpath(h, store, Str(Head(segs).ref), [inj EXCEPT !.full = FALSE]), LAMBDA g :
        IF g.exc # "" THEN g
        ELSE IF isfunc(g.out) THEN Res(g.h, "TypeError", g.inj, UNDEF)
        ELSE partial(g.h, g.inj, Tail(segs), store, acc \o PartText(g.h, g.out)))

\* _injectstr with a full_re that has lost its backquotes: every string that
\* is not empty is looked up as a path.
_injectstrUnquoted(h, inj, val, store) ==
    IF val = "" THEN Res(h, "", inj, Str(""))
    ELSE Let(getpath(h, store, Str(val), [inj EXCEPT !.full = TRUE]), LAMBDA g :
         IF g.exc # "" THEN g
         ELSE Call("handler", <<g.h, [g.inj EXCEPT !.full = TRUE], g.out, val, store>>))

\* _injectstr(val, store, inj) for a string val.
_injectstr(h, inj, val, store) ==
    IF val = "" THEN Res(h, "", inj, Str(""))
    ELSE IF IsFull(val) THEN
        Let(getpath(h, store, Str(FullRef(val)), [inj EXCEPT !.full = TRUE]), LAMBDA g :
        IF g.exc # "" THEN g
        ELSE Call("handler", <<g.h, [g.inj EXCEPT !.full = TRUE], g.out, FullRef(val), store>>))
    ELSE
        Let(partial(h, inj, Segments(val), store, ""), LAMBDA p :
        IF p.exc # "" THEN p
        ELSE Call("handler", <<p.h, [p.inj EXCEPT !.full = TRUE], Str(p.out), val, store>>))

-----------------------------------------------------------------------------
(* inject *)

\* str(v) as an f-string writes it.
PyFmt(h, v) == IF Tag(v) = "str" THEN Payload(v) ELSE PyStr(Deref(h, v))

_invalidTypeMsg(h, path, needtype, vt, v) ==
    "Expected "
    \o (IF 1 < Len(path) THEN "field " \o pathify(path, 1, 0) \o " to be " ELSE "")
    \o needtype \o ", but found "
    \o (IF v # UNDEF THEN vt \o ": " ELSE "")
    \o (IF v = UNDEF THEN "no value" ELSE stringify(h, v))
    \o "."

\* The keys of cval that pval has no value for (lines 2013-2016).
badkeys(h, pval, cval) == SelectSeq(keysof(h, cval), LAMBDA k : ~haskey(h, pval, k))

SkipTree == <<"map", << <<"^$SKIP^", Bool(TRUE)>> >> >>

\* _validation(pval, key, parent, inj), the modify hook of validate: the
\* heap after it.
_validation(h, inj, pval, key, parent) ==
    Let(getprop(h, inj.meta, "^$EXACT^", Bool(FALSE)), LAMBDA exact :
    Let(getprop(h, inj.dparent, key, UNDEF), LAMBDA cval :
    Let(typify(h, pval), LAMBDA ptype :
    Let(typify(h, cval), LAMBDA ctype :
    IF PyEqTree(Deref(h, pval), SkipTree) THEN h
    ELSE IF ~Truthy(h, exact) /\ cval = UNDEF THEN h
    ELSE IF ptype = "string" /\ HasDollar(Payload(pval)) THEN h
    ELSE IF ptype # ctype /\ pval # UNDEF
    THEN AppendErr(h, inj, _invalidTypeMsg(h, inj.path, ptype, ctype, cval))
    ELSE IF ismap(h, cval) THEN
        IF ~ismap(h, pval)
        THEN AppendErr(h, inj, _invalidTypeMsg(h, inj.path, ptype, ctype, cval))
        ELSE IF 0 < Len(keysof(h, pval))
                /\ ~PyEq(h, Bool(TRUE), getprop(h, pval, "^$OPEN^", UNDEF))
        THEN Let(badkeys(h, pval, cval), LAMBDA bad :
             IF 0 < Len(bad)
             THEN AppendErr(h, inj, "Unexpected keys at field "
                    \o pathify(inj.path, 1, 0) \o ": " \o Join(bad, ", "))
             ELSE h)
        ELSE delprop(merge(h, <<pval, cval>>).h, pval, "^$OPEN^")
    ELSE IF islist(h, cval) THEN
        IF ~islist(h, pval)
        THEN AppendErr(h, inj, _invalidTypeMsg(h, inj.path, ptype, ctype, cval))
        ELSE h
    ELSE IF Truthy(h, exact) THEN
        IF ~PyEq(h, cval, pval)
        THEN AppendErr(h, inj, "Value "
                \o (IF Len(inj.path) > 1 THEN "at field " \o pathify(inj.path, 1, 0) \o ": " ELSE "")
                \o PyFmt(h, cval) \o " should equal " \o PyFmt(h, pval))
        ELSE h
    ELSE setprop(h, parent, key, cval)))))

\* The keys of a node in the order inject visits them (lines 1143-1150).
nodekeysOf(h, val) ==
    IF ismap(h, val) THEN
        LET ks == EntryKeys(NodeItems(h, val))
        IN  SortKeys(SelectSeq(ks, LAMBDA k : ~HasDollar(k)))
            \o SortKeys(SelectSeq(ks, HasDollar))
    ELSE AsSeq([i \in 1..Len(NodeItems(h, val)) |-> IdxStr(i - 1)])

\* The state of the child in the phases val and key:post, a phase that
\* injects the key of the child, and the key:pre phase (lines 1156-1187).
ValState(h, c, val, out) ==
    [c EXCEPT !.val = getprop(h, val, KeyOfVal(out), UNDEF), !.mode = "val"]
PostState(c) == [c EXCEPT !.mode = "key:post"]
PhaseStr(h, c, val, store, nkI, key) ==
    _injectstr(Log(h, Step(h, c, val, key, nkI)), c, key, store)
KeyPre(h, c0, val, store, nkI) == PhaseStr(h, c0, val, store, nkI, c0.key)
ChildKey(h, inj, nkI, nodekeys) == child(h, inj, nkI, nodekeys).key

\* The loop of inject without the test of line 1169: the val and key:post
\* phases run also when the key:pre phase has returned null.
NullLogged(r1, val, key, nkI) ==
    IF r1.out = UNDEF
    THEN Log(r1.h, Step(r1.h, [r1.inj EXCEPT !.mode = "null"], val, key, nkI))
    ELSE r1.h
RECURSIVE injectLoopNoSkip(_, _, _, _, _, _)
injectLoopNoSkip(h, inj, val, store, nkI, nodekeys) ==
    IF nkI >= Len(nodekeys) THEN Res(h, "", inj, val)
    ELSE IF nkI < 0 - Len(nodekeys) THEN Res(h, "IndexError", inj, val)
    ELSE
    Let(KeyPre(h, [child(h, inj, nkI, nodekeys) EXCEPT !.mode = "key:pre"], val, store, nkI),
        LAMBDA r1 :
    IF r1.exc # "" THEN r1
    ELSE
    Let(NullLogged(r1, val, ChildKey(h, inj, nkI, nodekeys), nkI), LAMBDA h1 :
    Let(Call("inject", <<Log(h1, Step(h1, ValState(h1, r1.inj, val, r1.out), val,
                                      ChildKey(h, inj, nkI, nodekeys), nkI)),
                         ValState(h1, r1.inj, val, r1.out),
                         getprop(h1, val, KeyOfVal(r1.out), UNDEF), store>>), LAMBDA r2 :
    IF r2.exc # "" THEN r2
    ELSE Let(PhaseStr(r2.h, PostState(r2.inj), val, store, nkI,
                      ChildKey(h, inj, nkI, nodekeys)), LAMBDA r3 :
         IF r3.exc # "" THEN r3
         ELSE injectLoopNoSkip(r3.h, [inj EXCEPT !.keyI = @ - r3.inj.priorDec], val, store,
                               r3.inj.keyI + 1, r3.inj.keys)))))

\* The loop of inject over the children of val (lines 1156-1189).  inj is
\* the prior of every child: what a command of a child takes off prior.keyI
\* is taken off inj.keyI when the child is done.
RECURSIVE injectLoop(_, _, _, _, _, _)
injectLoop(h, inj, val, store, nkI, nodekeys) ==
    IF nkI >= Len(nodekeys) THEN Res(h, "", inj, val)
    ELSE IF nkI < 0 - Len(nodekeys) THEN Res(h, "IndexError", inj, val)
    ELSE
    Let(KeyPre(h, [child(h, inj, nkI, nodekeys) EXCEPT !.mode = "key:pre"], val, store, nkI),
        LAMBDA r1 :
    IF r1.exc # "" THEN r1
    ELSE IF r1.out = UNDEF
    THEN injectLoop(Log(r1.h, Step(r1.h, [r1.inj EXCEPT !.mode = "null"], val,
                                   ChildKey(h, inj, nkI, nodekeys), nkI)),
                    [inj EXCEPT !.keyI = @ - r1.inj.priorDec], val, store,
                    r1.inj.keyI + 1, r1.inj.keys)
    ELSE
    Let(Call("inject", <<Log(r1.h, Step(r1.h, ValState(r1.h, r1.inj, val, r1.out), val,
                                        ChildKey(h, inj, nkI, nodekeys), nkI)),
                         ValState(r1.h, r1.inj, val, r1.out),
                         getprop(r1.h, val, KeyOfVal(r1.out), UNDEF), store>>), LAMBDA r2 :
    IF r2.exc # "" THEN r2
    ELSE Let(PhaseStr(r2.h, PostState(r2.inj), val, store, nkI,
                      ChildKey(h, inj, nkI, nodekeys)), LAMBDA r3 :
         IF r3.exc # "" THEN r3
         ELSE injectLoop(r3.h, [inj EXCEPT !.keyI = @ - r3.inj.priorDec], val, store,
                         r3.inj.keyI + 1, r3.inj.keys))))

\* inject(val, store, inj) with an injection state: injectAt is the call
\* after descend has moved the state down.
injectAt(d, val, store) ==
    Let(IF isnode(d.h, val)
        THEN Let(injectLoop(d.h, d.inj, val, store, 0, nodekeysOf(d.h, val)), LAMBDA l :
             Res(l.h, l.exc, IF l.exc = "" THEN l.inj ELSE d.inj, val))
        ELSE IF Tag(val) = "str"
        THEN Let(_injectstr(d.h, [d.inj EXCEPT !.mode = "val"], Payload(val), store), LAMBDA i :
             IF i.exc = "" /\ i.out # SKIP
             THEN Res(setval(i.h, i.inj, i.out, 1), "", i.inj, i.out)
             ELSE i)
        ELSE Res(d.h, "", d.inj, val), LAMBDA r :
    IF r.exc = "" /\ r.inj.modify # NoFn /\ r.out # SKIP
    THEN Res(_validation(r.h, r.inj, getprop(r.h, r.inj.parent, r.inj.key, UNDEF),
                         r.inj.key, r.inj.parent),
             "", r.inj, r.out)
    ELSE r)

inject(h, inj0, val, store) == injectAt(descend(h, inj0), val, store)

\* The injdef a caller hands to inject.
Injdef(modify, meta, handler, extra, dparent, dpath) ==
    [modify |-> modify, meta |-> meta, handler |-> handler, extra |-> extra,
     dparent |-> dparent, dpath |-> dpath]

NoInjdef == Injdef(NoFn, UNDEF, NoFn, UNDEF, UNDEF, <<>>)

\* The holder of val, the meta and the errs of a root state (lines 1104-1136).
injectSetup(h, val, store, injdef) ==
    Let(Alloc(h, "map", << <<"$TOP", val>> >>), LAMBDA p :
    Let(IF Truthy(p.h, injdef.meta) THEN [h |-> p.h, v |-> injdef.meta]
        ELSE Alloc(p.h, "map", <<>>), LAMBDA m :
    Let(IF getprop(m.h, store, "$ERRS", UNDEF) # UNDEF
        THEN [h |-> m.h, v |-> getprop(m.h, store, "$ERRS", UNDEF)]
        ELSE Alloc(m.h, "list", <<>>), LAMBDA e :
    [h |-> e.h,
     inj |-> [ InjectState("val", FALSE, 0, <<"$TOP">>, "$TOP", val, p.v, <<"$TOP">>,
                           <<p.v>>, IF injdef.handler # NoFn THEN injdef.handler
                                    ELSE "_injecthandler",
                           e.v, m.v, "$TOP", injdef.modify)
               EXCEPT !.extra = IF Truthy(e.h, injdef.extra) THEN injdef.extra ELSE UNDEF,
                      !.dparent = IF Truthy(e.h, injdef.dparent) THEN injdef.dparent
                                  ELSE store,
                      !.dpath = IF injdef.dpath # <<>> THEN injdef.dpath ELSE <<"$TOP">> ]])))

\* inject(val, store, injdef) at the root of an injection (lines 1104-1135).
injectRoot(h, val, store, injdef) ==
    Let(injectSetup(h, val, store, injdef), LAMBDA c :
    Call("inject", <<c.h, c.inj, val, store>>))

-----------------------------------------------------------------------------
(* The validator commands; current is inj.dparent *)

Err(h, inj, msg, out) == Res(AppendErr(h, inj, msg), "", inj, out)

\* validate_NUMBER, validate_BOOLEAN, validate_ARRAY, validate_FUNCTION
validate_TYPE(h, inj, current, need) ==
    Let(getprop(h, current, inj.key, UNDEF), LAMBDA out :
    Let(typify(h, out), LAMBDA t :
    IF t # need THEN Err(h, inj, _invalidTypeMsg(h, inj.path, need, t, out), UNDEF)
    ELSE Res(h, "", inj, out)))

validate_STRING(h, inj, current) ==
    Let(getprop(h, current, inj.key, UNDEF), LAMBDA out :
    IF typify(h, out) = "string" /\ out = Str("")
    THEN Err(h, inj, "Empty string at " \o pathify(inj.path, 1, 0), UNDEF)
    ELSE validate_TYPE(h, inj, current, "string"))

validate_OBJECT(h, inj, current) == validate_TYPE(h, inj, current, "object")

validate_ANY(h, inj, current) == Res(h, "", inj, getprop(h, current, inj.key, UNDEF))

\* The loop of validate_CHILD over the keys of the data map (lines 1794-1800).
RECURSIVE childKeys(_, _, _, _)
childKeys(h, inj, childtm, ckeys) ==
    IF ckeys = <<>> THEN [h |-> h, inj |-> inj]
    ELSE Let(clone(h, childtm), LAMBDA c :
         childKeys(setval(c.h, [child(c.h, inj, 0, <<Head(ckeys)>>) EXCEPT !.key = Head(ckeys)],
                          c.v, 1),
                   [inj EXCEPT !.keys = Append(inj.keys, Head(ckeys))],
                   childtm, Tail(ckeys)))

\* The loop of validate_CHILD over the elements of the data list (1831-1832);
\* parent[i] = ... raises IndexError beyond the end of parent.
RECURSIVE childItems(_, _, _, _, _)
childItems(h, parent, childtm, n, i) ==
    IF i >= n THEN [h |-> h, exc |-> ""]
    ELSE IF i >= Len(NodeItems(h, parent)) THEN [h |-> h, exc |-> "IndexError"]
    ELSE Let(clone(h, childtm), LAMBDA c :
         childItems(SetNode(c.h, parent, [NodeItems(c.h, parent) EXCEPT ![i + 1] = c.v]),
                    parent, childtm, n, i + 1))

validate_CHILD(h, inj, current) ==
    IF inj.mode = "key:pre" THEN
        Let(getprop(h, current, getelem(inj.path, 2, UndefKey), UNDEF), LAMBDA tval :
        IF tval # UNDEF /\ ~ismap(h, tval)
        THEN Err(h, inj, _invalidTypeMsg(h, sliceEnd(inj.path, 1), "object",
                                         typify(h, tval), tval), UNDEF)
        ELSE Let(childKeys(h, inj, getprop(h, inj.parent, inj.key, UNDEF),
                           IF tval = UNDEF THEN <<>> ELSE keysof(h, tval)), LAMBDA k :
             Res(setval(k.h, k.inj, UNDEF, 1), "", k.inj, UNDEF)))
    ELSE IF inj.mode = "val" THEN
        IF ~islist(h, inj.parent) THEN Err(h, inj, "Invalid $CHILD as value", UNDEF)
        ELSE IF current = UNDEF THEN Res(SetNode(h, inj.parent, <<>>), "", inj, UNDEF)
        ELSE IF ~islist(h, current)
        THEN Err(h, [inj EXCEPT !.keyI = Len(NodeItems(h, inj.parent))],
                 _invalidTypeMsg(h, sliceEnd(inj.path, 1), "array", typify(h, current), current),
                 current)
        ELSE Let(Len(NodeItems(h, current)), LAMBDA n :
             Let(childItems(h, inj.parent, getprop(h, inj.parent, "1", UNDEF), n, 0), LAMBDA c :
             IF c.exc # "" THEN Res(c.h, c.exc, inj, UNDEF)
             ELSE Res(SetNode(c.h, inj.parent, SubSeq(NodeItems(c.h, inj.parent), 1, n)),
                      "", [inj EXCEPT !.keyI = 0], getprop(c.h, current, "0", UNDEF))))
    ELSE Res(h, "", inj, UNDEF)

\* The state of validate_ONE and validate_EXACT once the command list is
\* replaced by the data value (lines 1861-1867, 1932-1937).
Replaced(inj) ==
    [inj EXCEPT !.keyI = Len(inj.keys),
                !.path = sliceEnd(inj.path, 1),
                !.key = getelem(inj.path, 2, UndefKey)]

\* validate_ONE: the call validate(current, tval, vstore, terrs) at line 1883
\* passes four arguments to a function of three, which raises TypeError.
validate_ONE(h, inj, current) ==
    IF inj.mode # "val" THEN Res(h, "", inj, UNDEF)
    ELSE IF ~islist(h, inj.parent) \/ inj.keyI # 0
    THEN Err(h, inj, "The $ONE validator at field " \o pathify(inj.path, 1, 1)
                     \o " must be the first element of an array.", UNDEF)
    ELSE Let(setval(h, inj, current, 2), LAMBDA h1 :
         Let(Replaced(inj), LAMBDA inj1 :
         IF Len(NodeItems(h1, inj.parent)) <= 1
         THEN Err(h1, inj1, "The $ONE validator at field " \o pathify(inj1.path, 1, 1)
                            \o " must have at least one argument.", UNDEF)
         ELSE Res(h1, "TypeError", inj1, UNDEF)))

\* re.sub(r"`\$([A-Z]+)`", lower, text) on one string of the model: a
\* name in backquotes becomes the name in lower case.
LowerCmd(s) ==
    CASE s = "^$STRING^" -> "string"     [] s = "^$NUMBER^" -> "number"
      [] s = "^$BOOLEAN^" -> "boolean"   [] s = "^$OBJECT^" -> "object"
      [] s = "^$ARRAY^" -> "array"       [] s = "^$FUNCTION^" -> "function"
      [] s = "^$ANY^" -> "any"           [] s = "^$CHILD^" -> "child"
      [] s = "^$ONE^" -> "one"           [] s = "^$EXACT^" -> "exact"
      [] s = "^$OPEN^" -> "open"         [] s = "^$SKIP^" -> "skip"
      [] s = "^$TOP^" -> "top"           [] s = "^$DELETE^" -> "delete"
      [] s = "^$COPY^" -> "copy"         [] s = "^$KEY^" -> "key"
      [] s = "^$META^" -> "meta"         [] s = "^$MERGE^" -> "merge"
      [] s = "^$EACH^" -> "each"         [] s = "^$PACK^" -> "pack"
      [] s = "^$REF^" -> "ref"           [] s = "^$BT^" -> "bt"
      [] s = "^$DS^" -> "ds"             [] s = "^$WHEN^" -> "when"
      [] OTHER -> s

\* The tree with LowerCmd applied to its strings and keys.
RECURSIVE LowerTree(_)
LowerTree(t) ==
    IF Tag(t) = "str" THEN Str(LowerCmd(Payload(t)))
    ELSE IF IsLeaf(t) THEN t
    ELSE IF Tag(t) = "list"
    THEN <<"list", AsSeq([i \in 1..Len(Payload(t)) |-> LowerTree(Payload(t)[i])])>>
    ELSE <<"map", AsSeq([i \in 1..Len(Payload(t)) |->
                    <<LowerCmd(Payload(t)[i][1]), LowerTree(Payload(t)[i][2])>>])>>

\* stringify(v) after the re.sub of lines 1896 and 1960.
ValDesc(h, v) ==
    Let(Deref(h, v), LAMBDA t :
    IF t = UNDEF THEN ""
    ELSE IF Tag(t) = "str" THEN LowerCmd(Payload(t))
    ELSE IF HasFn(t) THEN PyStr(LowerTree(t))
    ELSE JsonText(LowerTree(Norm(t)), ""))

\* The test of validate_EXACT on one alternative (lines 1949-1954).
exactmatch(h, tval, current) ==
    \/ PyEq(h, tval, current)
    \/ (isnode(h, tval) /\ stringify(h, tval) = stringify(h, current))

validate_EXACT(h, inj, current) ==
    IF inj.mode # "val" THEN Res(setval(h, inj, UNDEF, 1), "", inj, UNDEF)
    ELSE IF ~islist(h, inj.parent) \/ inj.keyI # 0
    THEN Err(h, inj, "The $EXACT validator at field " \o pathify(inj.path, 1, 1)
                     \o " must be the first element of an array.", UNDEF)
    ELSE Let(setval(h, inj, current, 2), LAMBDA h1 :
         Let(Replaced(inj), LAMBDA inj1 :
         Let(Tail(NodeItems(h1, inj.parent)), LAMBDA tvals :
         IF tvals = <<>>
         THEN Err(h1, inj1, "The $EXACT validator at field " \o pathify(inj1.path, 1, 1)
                            \o " must have at least one argument.", UNDEF)
         ELSE IF \E i \in 1..Len(tvals) : exactmatch(h1, tvals[i], current)
         THEN Res(h1, "", inj1, UNDEF)
         ELSE Err(h1, inj1,
                  _invalidTypeMsg(h1, inj1.path,
                      (IF 1 < Len(inj1.path) THEN "" ELSE "value ")
                      \o "exactly equal to "
                      \o (IF Len(tvals) = 1 THEN "" ELSE "one of ")
                      \o Join([i \in 1..Len(tvals) |-> ValDesc(h1, tvals[i])], ", "),
                      typify(h1, current), current),
                  UNDEF))))

-----------------------------------------------------------------------------
(* The transform commands *)

transform_DELETE(h, inj) == Res(setval(h, inj, UNDEF, 1), "", inj, UNDEF)

transform_COPY(h, inj) ==
    IF inj.mode \in {"key:pre", "key:post"} THEN Res(h, "", inj, Str(inj.key))
    ELSE Let(getprop(h, inj.dparent, inj.key, UNDEF), LAMBDA out :
         Res(setval(h, inj, out, 1), "", inj, out))

transform_KEY(h, inj) ==
    IF inj.mode = "key:pre" THEN Res(h, "", inj, Str(inj.key))
    ELSE IF inj.mode # "val" THEN Res(h, "", inj, UNDEF)
    ELSE Let(getprop(h, inj.parent, "^$KEY^", UNDEF), LAMBDA keyspec :
        IF keyspec # UNDEF
        THEN Res(setprop(h, inj.parent, "^$KEY^", UNDEF), "", inj,
                 getprop(h, inj.dparent, KeyOfVal(keyspec), UNDEF))
        ELSE IF ismap(h, inj.dparent) /\ haskey(h, inj.dparent, inj.key)
        THEN Res(h, "", inj, getprop(h, inj.dparent, inj.key, UNDEF))
        ELSE Res(h, "", inj,
                 getprop(h, getprop(h, inj.parent, "^$META^", UNDEF), "KEY",
                         IF Len(inj.path) >= 2 THEN Str(inj.path[Len(inj.path) - 1]) ELSE UNDEF)))

transform_META(h, inj) == Res(setprop(h, inj.parent, "^$META^", UNDEF), "", inj, UNDEF)

transform_MERGE(h, inj) ==
    IF inj.mode = "key:pre" THEN Res(h, "", inj, Str(inj.key))
    ELSE IF inj.mode = "key:post" THEN
        Let(getprop(h, inj.parent, inj.key, UNDEF), LAMBDA args :
        Let(clone(setval(h, inj, UNDEF, 1), inj.parent), LAMBDA c :
        Res(merge(c.h, <<inj.parent>>
                       \o (IF islist(h, args) THEN NodeItems(h, args) ELSE <<args>>)
                       \o <<c.v>>).h, "", inj, Str(inj.key))))
    ELSE IF inj.mode = "val" /\ islist(h, inj.parent) THEN
        IF inj.key = "0" /\ Len(NodeItems(h, inj.parent)) > 0
        THEN Let(SetNode(h, inj.parent, Tail(NodeItems(h, inj.parent))), LAMBDA h1 :
             Res(h1, "", inj, getprop(h1, inj.parent, "0", UNDEF)))
        ELSE Res(h, "", inj, getprop(h, inj.parent, inj.key, UNDEF))
    ELSE Res(h, "", inj, UNDEF)

\* The child templates of transform_EACH, one for each entry of src (lines
\* 1381-1393): the heap, the templates, "TypeError" when a template that is
\* not a dict is given its $META entry.
RECURSIVE eachTemplates(_, _, _, _, _)
eachTemplates(h, src, template, i, acc) ==
    IF i > Len(NodeItems(h, src)) THEN [h |-> h, exc |-> "", v |-> acc]
    ELSE Let(clone(h, template), LAMBDA c :
        IF islist(h, src) THEN eachTemplates(c.h, src, template, i + 1, Append(acc, c.v))
        ELSE IF ~ismap(c.h, c.v) THEN [h |-> c.h, exc |-> "TypeError", v |-> acc]
        ELSE Let(Alloc(c.h, "map", << <<"KEY", Str(NodeItems(h, src)[i][1])>> >>), LAMBDA m :
             eachTemplates(setprop(m.h, c.v, "^$META^", m.v), src, template, i + 1,
                           Append(acc, c.v))))

\* The injections of transform_EACH, one for each template (lines 1410-1422).
RECURSIVE eachInject(_, _, _, _, _, _, _, _)
eachInject(h, inj, store, tval, tcurrent, base_dpath, i, acc) ==
    IF i > Len(tval) THEN [h |-> h, exc |-> "", v |-> acc]
    ELSE Let(injectRoot(h, tval[i], store,
                     Injdef(inj.modify, inj.meta, inj.handler, inj.extra, tcurrent[i],
                            Append(base_dpath, IdxStr(i - 1)))), LAMBDA r :
         IF r.exc # "" THEN [h |-> r.h, exc |-> r.exc, v |-> acc]
         ELSE eachInject(r.h, inj, store, tval, tcurrent, base_dpath, i + 1,
                         Append(acc, r.out)))

\* What transform_EACH has in hand before it injects the templates: the
\* state, the templates tval, the source values tcurrent and the data path
\* of the source; exc is the exception, or "return" where the command
\* returns before.
eachSetup(h, inj0, store) ==
    Let([inj0 EXCEPT !.keys = SubSeq(inj0.keys, 1, IF Len(inj0.keys) > 0 THEN 1 ELSE 0)],
        LAMBDA inj :
    Let(IF isnode(h, inj.parent) THEN NodeItems(h, inj.parent) ELSE <<>>, LAMBDA ps :
    IF inj.mode # "val"
    THEN [h |-> h, exc |-> "return", inj |-> inj, tval |-> <<>>, tcurrent |-> <<>>,
          dpath |-> <<>>]
    ELSE IF ismap(h, inj.parent) /\ Len(ps) > 1
    THEN [h |-> h, exc |-> "KeyError", inj |-> inj, tval |-> <<>>, tcurrent |-> <<>>,
          dpath |-> <<>>]
    ELSE
    Let(IF islist(h, inj.parent) /\ Len(ps) > 1 THEN ps[2] ELSE UNDEF, LAMBDA srcpath :
    Let(IF islist(h, inj.parent) /\ Len(ps) > 2 THEN clone(h, ps[3])
        ELSE [h |-> h, v |-> UNDEF], LAMBDA t :
    Let(getpath(t.h, getprop(t.h, store, inj.base, store), srcpath, inj), LAMBDA g :
    IF g.exc # ""
    THEN [h |-> g.h, exc |-> g.exc, inj |-> g.inj, tval |-> <<>>, tcurrent |-> <<>>,
          dpath |-> <<>>]
    ELSE
    Let(IF isnode(g.h, g.out) THEN eachTemplates(g.h, g.out, t.v, 1, <<>>)
        ELSE [h |-> g.h, exc |-> "", v |-> <<>>], LAMBDA tv :
    [h |-> tv.h, exc |-> tv.exc, inj |-> g.inj, tval |-> tv.v,
     tcurrent |-> IF ismap(g.h, g.out)
                  THEN AsSeq([i \in 1..Len(NodeItems(g.h, g.out)) |->
                                  NodeItems(g.h, g.out)[i][2]])
                  ELSE IF islist(g.h, g.out) THEN NodeItems(g.h, g.out) ELSE <<>>,
     dpath |-> g.inj.dpath \o
                  (IF Tag(srcpath) = "str"
                   THEN SelectSeq(Split(Payload(srcpath)), LAMBDA part : part # "")
                   ELSE <<>>)]))))))

transform_EACH(h, inj0, store) ==
    Let(eachSetup(h, inj0, store), LAMBDA c :
    IF c.exc = "return" THEN Res(c.h, "", c.inj, UNDEF)
    ELSE IF c.exc # "" THEN Res(c.h, c.exc, c.inj, UNDEF)
    ELSE Let(eachInject(c.h, c.inj, store, c.tval, c.tcurrent, c.dpath, 1, <<>>), LAMBDA e :
         IF e.exc # "" THEN Res(e.h, e.exc, c.inj, UNDEF)
         ELSE Let(Alloc(e.h, "list", e.v), LAMBDA a :
              Res(setprop(a.h,
                          IF Len(c.inj.nodes) >= 2 THEN getelem(c.inj.nodes, 2, UNDEF)
                          ELSE getelem(c.inj.nodes, 1, UNDEF),
                          getelem(c.inj.path, 2, UndefKey), a.v), "",
                  [c.inj EXCEPT !.keyI = Len(c.inj.keys)],
                  IF e.v # <<>> THEN e.v[1] ELSE UNDEF))))

\* slice(val, 0, end) for a list val (lines 255-280).
sliceTo(s, end) ==
    SubSeq(s, 1, IF end < 0 THEN (IF Len(s) + end < 0 THEN 0 ELSE Len(s) + end)
                 ELSE IF Len(s) < end THEN Len(s) ELSE end)

\* The functions a caller puts in the store under $SPEC: each returns the
\* spec the caller holds, here as a tree.  spec_self refers to the slot the
\* reference stands in, spec_tree to the map above it, spec_plain and
\* spec_inj to a sub-spec without a reference, spec_list to an element of
\* a list.
SpecFuncs(name) ==
    CASE name = "spec_self" ->
            <<"map", << <<"a", <<"list", << Str("^$REF^"), Str("a") >> >> >> >> >>
      [] name = "spec_tree" ->
            <<"map", << <<"x", <<"map", << <<"y", <<"list", << Str("^$REF^"), Str("x") >> >> >> >> >> >> >> >>
      [] name = "spec_plain" ->
            <<"map", << <<"a", <<"map", << <<"b", Num(1)>> >> >> >>,
                        <<"c", <<"list", << Str("^$REF^"), Str("a") >> >> >> >> >>
      [] name = "spec_inj" ->
            <<"map", << <<"a", <<"map", << <<"b", Str("^a^")>> >> >> >>,
                        <<"c", <<"list", << Str("^$REF^"), Str("a") >> >> >> >> >>
      [] name = "spec_list" ->
            <<"list", << <<"list", << Str("^$REF^"), Str("1") >> >>,
                         <<"map", << <<"b", Str("^a^")>> >> >>, Num(5) >> >>

\* transform_REF (lines 1551-1614); fn is the command itself, which it
\* returns.  The call of inject at line 1601 is nested in the calls that led
\* to it.  When the same reference is already being injected at the same
\* path by one of them, the call repeats the call it is nested in, the store
\* and what $SPEC returns being what they were: the calls nest without end,
\* which the interpreter ends with RecursionError.  The same holds when the
\* reference is equal to the list the command stands in: the nested call
\* then meets this very command at this very path.
transform_REF(h, inj0, fn, store) ==
    IF inj0.mode # "val" THEN Res(h, "", inj0, UNDEF)
    ELSE
    Let([inj0 EXCEPT !.keyI = Len(inj0.keys)], LAMBDA inj :
    Let(getprop(h, inj.parent, "1", UNDEF), LAMBDA refpath :
    Let(getprop(h, store, "$SPEC", UNDEF), LAMBDA spec_func :
    IF ~isfunc(spec_func) THEN Res(h, "", inj, UNDEF)
    ELSE
    Let(Load(h, SpecFuncs(Payload(spec_func))), LAMBDA spec :
    Let(IF Tag(refpath) \in {"str", "num"} \/ islist(spec.h, refpath)
        THEN getpathList(spec.h, spec.v, PathParts(spec.h, refpath))
        ELSE UNDEF, LAMBDA ref :
    Let(IF isnode(spec.h, ref)
        THEN walk(spec.h, ref, "check_subref", FALSE, UndefKey, UNDEF, <<>>)
        ELSE [h |-> spec.h, st |-> FALSE], LAMBDA hasSubRef :
    Let(clone(hasSubRef.h, ref), LAMBDA tref :
    IF tref.exc # "" THEN Res(tref.h, tref.exc, inj, UNDEF)
    ELSE
    Let(sliceTo(inj.path, Len(inj.path) - 3), LAMBDA cpath :
    Let(sliceTo(inj.path, Len(inj.path) - 1), LAMBDA tpath :
    Let(getpathList(tref.h, store, cpath), LAMBDA tcur :
    Let(getpathList(tref.h, store, tpath), LAMBDA tval :
    Let(IF (~hasSubRef.st \/ tval # UNDEF)
           /\ (<<tpath, Deref(tref.h, tref.v)>> \in inj.active
               \/ Deref(tref.h, tref.v) = Deref(tref.h, inj.parent))
        THEN [h |-> tref.h, exc |-> "RecursionError", v |-> UNDEF]
        ELSE IF ~hasSubRef.st \/ tval # UNDEF
        THEN Let(Call("inject",
                      <<tref.h,
                        [child(tref.h, inj, 0, <<getelem(tpath, 1, UndefKey)>>)
                            EXCEPT !.path = tpath,
                                   !.nodes = sliceTo(inj.nodes, Len(inj.nodes) - 1),
                                   !.parent = getelem(inj.nodes, 2, UNDEF),
                                   !.val = tref.v,
                                   !.dparent = tcur,
                                   !.active = @ \cup { <<tpath, Deref(tref.h, tref.v)>> }],
                        tref.v, store>>), LAMBDA r :
             [h |-> r.h, exc |-> r.exc, v |-> tref.v])
        ELSE [h |-> tref.h, exc |-> "", v |-> UNDEF], LAMBDA rval :
    IF rval.exc # "" THEN Res(rval.h, rval.exc, inj, UNDEF)
    ELSE Res(setval(rval.h, inj, rval.v, 2), "",
             IF islist(rval.h, inj.parent) THEN [inj EXCEPT !.priorDec = @ + 1] ELSE inj,
             fn)))))))))))))

-----------------------------------------------------------------------------
(* The commands of select *)

\* select_AND, select_OR, select_NOT (lines 575-638). They act in mode
\* key:post only. There each term is handed to validate with four
\* positional arguments, which validate (line 2052) does not take: the
\* call raises TypeError. select_NOT always makes the call; the other two
\* make it once per term, so they get past the loop when terms is empty.
\* The separator sign of the messages is written "~".
select_TERMS(h, inj, ref, store) ==
    IF inj.mode # "key:post" THEN Res(h, "", inj, UNDEF)
    ELSE Let(getprop(h, inj.parent, inj.key, UNDEF), LAMBDA terms :
         Let(getpathList(h, store, sliceEnd(inj.path, 1)), LAMBDA point :
         IF ref = "$NOT"
            \/ ~(terms = Str("") \/ (isnode(h, terms) /\ Len(NodeItems(h, terms)) = 0))
         THEN Res(h, "TypeError", inj, UNDEF)
         ELSE IF ref = "$AND"
         THEN Res(setprop(h, getelem(inj.nodes, 2, UNDEF), getelem(inj.path, 2, UndefKey),
                          point), "", inj, UNDEF)
         ELSE Err(h, inj, "OR:" \o pathify(sliceEnd(inj.path, 1), 0, 0) \o "~"
                          \o stringify(h, point) \o " fail:" \o stringify(h, terms), UNDEF)))

\* Python's ordering of two values: "lt", "eq", "gt", or "TypeError" where
\* the values cannot be ordered. Numbers and booleans are ordered as numbers,
\* strings as strings; lists are not modelled and count as unordered.
PyOrder(a, b) ==
    IF Tag(a) \in {"num", "bool"} /\ Tag(b) \in {"num", "bool"}
    THEN (IF AsInt(a) < AsInt(b) THEN "lt" ELSE IF AsInt(a) = AsInt(b) THEN "eq" ELSE "gt")
    ELSE IF Tag(a) = "str" /\ Tag(b) = "str"
    THEN (IF Rank(Payload(a)) < Rank(Payload(b)) THEN "lt"
          ELSE IF Payload(a) = Payload(b) THEN "eq" ELSE "gt")
    ELSE "TypeError"

\* select_CMP (lines 641-669), for $GT, $LT, $GTE and $LTE. $LIKE searches
\* with a regular expression: it is modelled for a pattern that is the whole
\* text of the point, and for the empty pattern.
select_CMP(h, inj, ref, store) ==
    IF inj.mode # "key:post" THEN Res(h, "", inj, UNDEF)
    ELSE Let(getprop(h, inj.parent, inj.key, UNDEF), LAMBDA term :
         Let(getpathList(h, store, sliceEnd(inj.path, 1)), LAMBDA point :
         Let(PyOrder(point, term), LAMBDA o :
         IF (ref = "$LIKE" /\ Tag(term) # "str") \/ (ref # "$LIKE" /\ o = "TypeError")
         THEN Res(h, "TypeError", inj, UNDEF)
         ELSE IF CASE ref = "$GT" -> o = "gt"
                   [] ref = "$LT" -> o = "lt"
                   [] ref = "$GTE" -> o \in {"gt", "eq"}
                   [] ref = "$LTE" -> o \in {"lt", "eq"}
                   [] OTHER -> term = Str("") \/ term = Str(stringify(h, point))
         THEN Res(setprop(h, getelem(inj.nodes, 2, UNDEF), getelem(inj.path, 2, UndefKey),
                          point), "", inj, UNDEF)
         ELSE Err(h, inj, "CMP: " \o pathify(sliceEnd(inj.path, 1), 0, 0) \o "~"
                          \o stringify(h, point) \o " fail:" \o ref \o " "
                          \o stringify(h, term), UNDEF))))

\* The extra commands of select's injdef (lines 690-699).
SelectExtra ==
    << <<"$AND", Fn("select_AND")>>, <<"$OR", Fn("select_OR")>>, <<"$NOT", Fn("select_NOT")>>,
       <<"$GT", Fn("select_CMP")>>, <<"$LT", Fn("select_CMP")>>, <<"$GTE", Fn("select_CMP")>>,
       <<"$LTE", Fn("select_CMP")>>, <<"$LIKE", Fn("select_CMP")>> >>

-----------------------------------------------------------------------------
(* Calling a function found in the store or in the data *)

\* str.upper() of the keys of the model.
Upper(k) ==
    CASE k = "a" -> "A" [] k = "b" -> "B" [] k = "c" -> "C" [] k = "x" -> "X"
      [] k = "None" -> "NONE" [] OTHER -> k

\* val(inj, val, ref, store), or val(inj, val, inj.dparent, ref, store) for
\* a function of five parameters (lines 1217-1224).  f0 and f4 are the
\* functions a caller may hold in data: f0 takes no argument, so the call
\* raises TypeError; f4 takes four and returns a string.  upper_func is the
\* command a caller adds under $UPPER: it returns the last key of the path of
\* the injection in upper case.
CallCmd(h, inj, fn, ref, store) ==
    CASE Payload(fn) = "transform_DELETE" -> transform_DELETE(h, inj)
      [] Payload(fn) = "transform_COPY" -> transform_COPY(h, inj)
      [] Payload(fn) = "transform_KEY" -> transform_KEY(h, inj)
      [] Payload(fn) = "transform_META" -> transform_META(h, inj)
      [] Payload(fn) = "transform_MERGE" -> transform_MERGE(h, inj)
      [] Payload(fn) = "transform_EACH" -> transform_EACH(h, inj, store)
      [] Payload(fn) = "transform_REF" -> transform_REF(h, inj, fn, store)
      [] Payload(fn) = "validate_STRING" -> validate_STRING(h, inj, inj.dparent)
      [] Payload(fn) = "validate_NUMBER" -> validate_TYPE(h, inj, inj.dparent, "number")
      [] Payload(fn) = "validate_BOOLEAN" -> validate_TYPE(h, inj, inj.dparent, "boolean")
      [] Payload(fn) = "validate_OBJECT" -> validate_OBJECT(h, inj, inj.dparent)
      [] Payload(fn) = "validate_ARRAY" -> validate_TYPE(h, inj, inj.dparent, "array")
      [] Payload(fn) = "validate_FUNCTION" -> validate_TYPE(h, inj, inj.dparent, "function")
      [] Payload(fn) = "validate_ANY" -> validate_ANY(h, inj, inj.dparent)
      [] Payload(fn) = "validate_CHILD" -> validate_CHILD(h, inj, inj.dparent)
      [] Payload(fn) = "validate_ONE" -> validate_ONE(h, inj, inj.dparent)
      [] Payload(fn) = "validate_EXACT" -> validate_EXACT(h, inj, inj.dparent)
      [] Payload(fn) \in {"select_AND", "select_OR", "select_NOT"} ->
            select_TERMS(h, inj, ref, store)
      [] Payload(fn) = "select_CMP" -> select_CMP(h, inj, ref, store)
      [] Payload(fn) = "$BT" -> Res(h, "", inj, Str("^"))
      [] Payload(fn) = "$DS" -> Res(h, "", inj, Str("$"))
      [] Payload(fn) = "$WHEN" -> Res(h, "", inj, Str("<utcnow>"))
      [] Payload(fn) = "upper_func" -> Res(h, "", inj, Str(Upper(getelem(inj.path, 1, "None"))))
      [] Payload(fn) = "f4" -> Res(h, "", inj, Str("F4"))
      [] Payload(fn) = "f0" -> Res(h, "TypeError", inj, UNDEF)

\* _injecthandler
_injecthandler(h, inj, val, ref, store) ==
    IF isfunc(val) /\ StartsDollar(ref) THEN CallCmd(h, inj, val, ref, store)
    ELSE IF inj.mode = "val" /\ inj.full THEN Res(setval(h, inj, val, 1), "", inj, val)
    ELSE Res(h, "", inj, val)

\* _validatehandler
_validatehandler(h, inj, val, ref, store) ==
    IF IsMetaPath(ref) THEN
        Let(Alloc(h, "list", <<Str("^$EXACT^"), val>>), LAMBDA a :
        Res(IF MetaOp(ref) = "=" THEN setval(a.h, inj, a.v, 1) ELSE setval(h, inj, val, 1),
            "", [inj EXCEPT !.keyI = -1], SKIP))
    ELSE _injecthandler(h, inj, val, ref, store)

\* inj.handler(inj, val, ref, store)
CallHandler(h, inj, val, ref, store) ==
    IF inj.handler = "_validatehandler" THEN _validatehandler(h, inj, val, ref, store)
    ELSE _injecthandler(h, inj, val, ref, store)

-----------------------------------------------------------------------------
(* transform and validate *)

\* The entries of the store that transform builds (lines 1647-1673), before
\* the extra transforms are laid over them.
TransformStore(data_clone) ==
    << <<"$TOP", data_clone>>,
       <<"$BT", Fn("$BT")>>, <<"$DS", Fn("$DS")>>, <<"$WHEN", Fn("$WHEN")>>,
       <<"$DELETE", Fn("transform_DELETE")>>, <<"$COPY", Fn("transform_COPY")>>,
       <<"$KEY", Fn("transform_KEY")>>, <<"$META", Fn("transform_META")>>,
       <<"$MERGE", Fn("transform_MERGE")>>, <<"$EACH", Fn("transform_EACH")>>,
       <<"$PACK", Fn("transform_PACK")>>, <<"$REF", Fn("transform_REF")>> >>

\* {**a, **b}: the entries of b laid over those of a. A key of a keeps its
\* place and takes the value b has for it; the other keys of b follow.
Update(a, b) ==
    AsSeq([i \in 1..Len(a) |->
            IF EntryIdx(b, a[i][1]) = 0 THEN a[i] ELSE b[EntryIdx(b, a[i][1])]])
    \o SelectSeq(b, LAMBDA e : EntryIdx(a, e[1]) = 0)

\* transform(data, spec, injdef)
\* The clone of the spec and the store of transform (lines 1620-1673).
transformSetup(h, data, spec, injdef) ==
    Let(clone(h, spec), LAMBDA s :
    Let(IF Truthy(s.h, injdef.extra) THEN NodeItems(s.h, injdef.extra) ELSE <<>>, LAMBDA extra :
    Let(Alloc(s.h, "map", SelectSeq(extra, LAMBDA e : ~StartsDollar(e[1]))), LAMBDA extraData :
    Let(IF isempty(extraData.h, extraData.v) THEN [h |-> extraData.h, v |-> UNDEF]
        ELSE clone(extraData.h, extraData.v), LAMBDA x :
    Let(clone(x.h, data), LAMBDA d :
    Let(merge(d.h, <<x.v, d.v>>), LAMBDA data_clone :
    Let(Alloc(data_clone.h, "map",
              Update(TransformStore(data_clone.v),
                     SelectSeq(extra, LAMBDA e : StartsDollar(e[1])))), LAMBDA store :
    [h |-> store.h, spec |-> s.v, store |-> store.v])))))))

transform(h, data, spec, injdef) ==
    Let(transformSetup(h, data, spec, injdef), LAMBDA c :
    injectRoot(c.h, c.spec, c.store, injdef))

\* The entries of the store that validate builds (lines 2058-2078).
ValidateStore ==
    << <<"$DELETE", UNDEF>>, <<"$COPY", UNDEF>>, <<"$KEY", UNDEF>>, <<"$META", UNDEF>>,
       <<"$MERGE", UNDEF>>, <<"$EACH", UNDEF>>, <<"$PACK", UNDEF>>,
       <<"$STRING", Fn("validate_STRING")>>, <<"$NUMBER", Fn("validate_NUMBER")>>,
       <<"$BOOLEAN", Fn("validate_BOOLEAN")>>, <<"$OBJECT", Fn("validate_OBJECT")>>,
       <<"$ARRAY", Fn("validate_ARRAY")>>, <<"$FUNCTION", Fn("validate_FUNCTION")>>,
       <<"$ANY", Fn("validate_ANY")>>, <<"$CHILD", Fn("validate_CHILD")>>,
       <<"$ONE", Fn("validate_ONE")>>, <<"$EXACT", Fn("validate_EXACT")>> >>

\* The injdef a caller hands to validate: errs, meta and extra, UNDEF when
\* it has none; NoValidateInjdef is no injdef at all.
ValidateInjdef(errs, meta, extra) == [errs |-> errs, meta |-> meta, extra |-> extra]
NoValidateInjdef == ValidateInjdef(UNDEF, UNDEF, UNDEF)

\* validate(data, spec, injdef): the result and the errs list; exc is
\* "ValueError" when the errors are raised, and msg is then the message.
\* The errs list, the store and the meta of validate (lines 2053-2091).
validateSetup(h, injdef) ==
    Let(IF injdef.errs # UNDEF THEN [h |-> h, v |-> injdef.errs] ELSE Alloc(h, "list", <<>>),
        LAMBDA e :
    Let(Alloc(e.h, "map",
              Update(Update(ValidateStore,
                            IF Truthy(e.h, injdef.extra) THEN NodeItems(e.h, injdef.extra)
                            ELSE <<>>),
                     << <<"$ERRS", e.v>> >>)), LAMBDA store :
    Let(Alloc(store.h, "map", << <<"^$EXACT^", Bool(FALSE)>> >>), LAMBDA m0 :
    Let(IF Truthy(m0.h, injdef.meta) THEN merge(m0.h, <<m0.v, injdef.meta>>) ELSE m0,
        LAMBDA meta :
    [h |-> meta.h, errs |-> e.v, store |-> store.v, meta |-> meta.v]))))

validate(h, data, spec, injdef) ==
    Let(validateSetup(h, injdef), LAMBDA c :
    Let(Call("transform", <<c.h, data, spec,
                            Injdef("_validation", c.meta, "_validatehandler", c.store,
                                   UNDEF, <<>>)>>), LAMBDA r :
    Let(AsSeq([i \in 1..Len(NodeItems(r.h, c.errs)) |->
                   Payload(NodeItems(r.h, c.errs)[i])]),
        LAMBDA msgs :
    IF r.exc # ""
    THEN [h |-> r.h, exc |-> r.exc, msg |-> "", out |-> UNDEF, errs |-> c.errs, inj |-> r.inj]
    ELSE IF 0 < Len(msgs) /\ injdef.errs = UNDEF
    THEN [h |-> r.h, exc |-> "ValueError", msg |-> "Invalid data: " \o Join(msgs, " | "),
          out |-> UNDEF, errs |-> c.errs, inj |-> r.inj]
    ELSE [h |-> r.h, exc |-> "", msg |-> "", out |-> r.out, errs |-> c.errs,
          inj |-> r.inj])))
-----------------------------------------------------------------------------
(* select *)

\* The children select collects, each map child stamped with its key
\* (lines 681-684): the heap after it and the children. keyed is the
\* sequence of <<key value, child>> pairs.
RECURSIVE stampChildren(_, _, _)
stampChildren(h, keyed, acc) ==
    IF keyed = <<>> THEN [h |-> h, v |-> acc]
    ELSE stampChildren(IF ismap(h, Head(keyed)[2])
                       THEN setprop(h, Head(keyed)[2], "$KEY", Head(keyed)[1])
                       ELSE h,
                       Tail(keyed), Append(acc, Head(keyed)[2]))

selectChildren(h, children) ==
    IF ismap(h, children)
    THEN Let(items(h, children), LAMBDA its :
         stampChildren(h, AsSeq([i \in 1..Len(its) |-> <<Str(its[i][1]), its[i][2]>>]), <<>>))
    ELSE Let(NodeItems(h, children), LAMBDA xs :
         stampChildren(h, AsSeq([i \in 1..Len(xs) |-> <<Num(i - 1), xs[i]>>]), <<>>))

\* The loop of select over the children (lines 712-717): each child is
\* validated against a clone of the query with a fresh errs list.
RECURSIVE selectLoop(_, _, _, _, _, _)
selectLoop(h, q, meta, extra, cs, results) ==
    IF cs = <<>> THEN [h |-> h, exc |-> "", out |-> results]
    ELSE Let(Alloc(h, "list", <<>>), LAMBDA e :
         Let(clone(e.h, q), LAMBDA c :
         Let(Call("validate", <<c.h, Head(cs), c.v, ValidateInjdef(e.v, meta, extra)>>),
             LAMBDA r :
         IF r.exc # "" THEN [h |-> r.h, exc |-> r.exc, out |-> results]
         ELSE selectLoop(r.h, q, meta, extra, Tail(cs),
                         IF size(r.h, e.v) = 0 THEN Append(results, Head(cs)) ELSE results))))

\* select(children, query): the heap after it, the exception raised and the
\* children selected.
select(h, children, query) ==
    IF ~isnode(h, children) THEN [h |-> h, exc |-> "", out |-> <<>>]
    ELSE Let(selectChildren(h, children), LAMBDA cs :
         Let(Alloc(cs.h, "map", << <<"^$EXACT^", Bool(TRUE)>> >>), LAMBDA meta :
         Let(Alloc(meta.h, "map", SelectExtra), LAMBDA extra :
         Let(clone(extra.h, query), LAMBDA q :
         Let(walk(q.h, q.v, "add_open", [cur |-> <<>>], UndefKey, UNDEF, <<>>), LAMBDA w :
         selectLoop(w.h, q.v, meta.v, extra.v, cs.v, <<>>))))))

-----------------------------------------------------------------------------
(* Calls by name *)

\* The functions that call one another through the injection (inject, the
\* handler, transform, validate, select), called by name: f names the
\* function and a is the tuple of its arguments.
Call(f, a) ==
    CASE f = "inject" -> inject(a[1], a[2], a[3], a[4])
      [] f = "handler" -> CallHandler(a[1], a[2], a[3], a[4], a[5])
      [] f = "transform" -> transform(a[1], a[2], a[3], a[4])
      [] f = "validate" -> validate(a[1], a[2], a[3], a[4])
      [] f = "select" -> select(a[1], a[2], a[3])
      [] f = "injectRoot" -> injectRoot(a[1], a[2], a[3], a[4])

-----------------------------------------------------------------------------
(* The caller's values *)

\* The trees of exactly n cells (a scalar, a list or a dict is one cell) with
\* scalars from leaves and dict keys from the sequence keys, the keys of a
\* dict in the order of the sequence.
RECURSIVE TreesOfSize(_, _, _)
RECURSIVE ListsOfSize(_, _, _)
RECURSIVE MapsOfSize(_, _, _, _)

TreesOfSize(n, leaves, keys) ==
    (IF n = 1 THEN leaves ELSE {})
    \cup { <<"list", xs>> : xs \in ListsOfSize(n - 1, leaves, keys) }
    \cup { <<"map", es>> : es \in MapsOfSize(n - 1, leaves, keys, 1) }

ListsOfSize(m, leaves, keys) ==
    IF m = 0 THEN { <<>> }
    ELSE UNION { { <<t>> \o r : t \in TreesOfSize(k, leaves, keys),
                                r \in ListsOfSize(m - k, leaves, keys) } : k \in 1..m }

MapsOfSize(m, leaves, keys, from) ==
    IF m = 0 THEN { <<>> }
    ELSE UNION { { << <<keys[jk[1]], t>> >> \o r :
                        t \in TreesOfSize(jk[2], leaves, keys),
                        r \in MapsOfSize(m - jk[2], leaves, keys, jk[1] + 1) } :
                 jk \in (from..Len(keys)) \X (1..m) }

TreesUpTo(n, leaves, keys) == UNION { TreesOfSize(k, leaves, keys) : k \in 1..n }

\* The largest data and specs the caller builds, in cells.
MaxSize == 3

\* A string with a backquote in it: an injection or a command.
RECURSIVE HasBackquote(_)
HasBackquote(t) ==
    IF IsLeaf(t) THEN Tag(t) = "str" /\ (IsFull(Payload(t)) \/ Len(Segments(Payload(t))) > 1)
    ELSE IF Tag(t) = "list" THEN \E i \in 1..Len(Payload(t)) : HasBackquote(Payload(t)[i])
    ELSE \E i \in 1..Len(Payload(t)) :
            \/ IsFull(Payload(t)[i][1]) \/ Len(Segments(Payload(t)[i][1])) > 1
            \/ HasBackquote(Payload(t)[i][2])

\* The data the caller hands to transform.
TransformLeaves == { UNDEF, Bool(TRUE), Num(1), Str("x"), Str("x$"), Str("^a^"), Str("^$COPY^") }
TransformKeys == <<"a", "b">>
TransformData == TreesUpTo(MaxSize, TransformLeaves, TransformKeys)

\* The specs with commands the caller hands to transform.
TransformSpecs ==
    { <<"map", << <<"a", Str("^$COPY^")>>, <<"b", Str("^a^")>> >> >>,
      <<"map", << <<"a", Str("^$DELETE^")>>, <<"b", Num(1)>> >> >>,
      <<"map", << <<"a", <<"map", << <<"^$MERGE^", Str("^a^")>>, <<"x", Num(1)>> >> >> >> >> >>,
      <<"map", << <<"^$MERGE^", <<"list", << Str("^a^"), <<"map", << <<"x", Num(1)>> >> >> >> >> >> >> >>,
      <<"map", << <<"a", <<"list", << Str("^$EACH^"), Str("a"),
                                      <<"map", << <<"x", Str("^$COPY^")>>, <<"y", Str("^$KEY^")>> >> >> >> >> >> >> >>,
      <<"map", << <<"b", <<"list", << Str("^$EACH^"), Str(""), Str("^$COPY^") >> >> >> >> >>,
      <<"map", << <<"a", <<"map", << <<"^$KEY^", Str("b")>>, <<"x", Str("^$KEY^")>> >> >> >> >> >>,
      <<"list", << Str("^a^"), Str("^$COPY^"), Str("^$DELETE^") >> >>,
      <<"map", << <<"a", <<"map", << <<"^$META^", <<"map", << <<"x", Num(1)>> >> >> >>,
                                     <<"b", Str("^..a^")>> >> >> >> >> >> }

\* The data the caller hands to validate; f4 is a function of the caller's.
ValidateLeaves == { UNDEF, Bool(TRUE), Num(1), Num(2), Str("x"), Str(""), Str("x$") }
ValidateData ==
    TreesUpTo(MaxSize, ValidateLeaves, TransformKeys)
    \cup { <<"map", << <<"a", Fn("f4")>> >> >> }

\* The shapes the caller hands to validate: a type-check command at key a,
\* examples, open and closed maps, $ONE and $EXACT.
TypeCmds == { "^$STRING^", "^$NUMBER^", "^$BOOLEAN^", "^$OBJECT^", "^$ARRAY^", "^$FUNCTION^" }
TypeShape(cmd) == <<"map", << <<"a", Str(cmd)>> >> >>
OpenShape(es) == <<"map", << <<"^$OPEN^", Bool(TRUE)>> >> \o es >>
ExampleLeaves == { Bool(TRUE), Num(1), Str("x"), Str("x$") }
ExampleShape(leaf) == <<"map", << <<"a", leaf>> >> >>
OneShape == <<"list", << Str("^$ONE^"), Str("^$NUMBER^"), Str("^$STRING^") >> >>
ExactShape(vs) == <<"list", << Str("^$EXACT^") >> \o vs >>
ExactArgs == { << Num(1) >>, << Num(1), Str("x") >>, << <<"list", << Num(1) >> >> >> }
NestedOpenShape == <<"map", << <<"a", OpenShape(<< <<"a", Num(1)>> >>)>> >> >>
ValidateShapes ==
    { TypeShape(cmd) : cmd \in TypeCmds }
    \cup { ExampleShape(leaf) : leaf \in ExampleLeaves }
    \cup { ExactShape(vs) : vs \in ExactArgs }
    \cup { <<"map", << <<"a", ExactShape(vs)>> >> >> : vs \in ExactArgs }
    \cup { <<"map", <<>> >>,
           OpenShape(<< <<"a", Num(1)>> >>),
           NestedOpenShape,
           OneShape,
           <<"map", << <<"a", OneShape>> >> >> }

\* The children and the queries the caller hands to select: a list or a map
\* of at most MaxKids children, or a value that is no node.
MaxKids == 2
SelectLeaves == { Num(1), Str("x") }
SelectKids == TreesUpTo(MaxKids, SelectLeaves, TransformKeys)
SelectChildren ==
    SelectLeaves
    \cup { <<"list", xs>> : xs \in UNION { [1..n -> SelectKids] : n \in 0..MaxKids } }
    \cup { <<"map", es>> : es \in
            { << <<"a", k>> >> : k \in SelectKids } \cup { << <<"b", k>> >> : k \in SelectKids }
            \cup { << <<"a", k[1]>>, <<"b", k[2]>> >> : k \in SelectKids \X SelectKids } }
SelectQueries ==
    { ExampleShape(leaf) : leaf \in { Num(1), Str("x"), Str("x$"), UNDEF } }
    \cup { <<"map", <<>> >>,
           <<"map", << <<"a", ExampleShape(Num(1))>> >> >>,
           <<"list", << Num(1) >> >> }

-----------------------------------------------------------------------------
(* The caller: one call of a public operation *)

Blank == <<"blank", 0>>

InitCall(op, data, spec, errs) ==
    /\ callOp = op
    /\ pc = "call"
    /\ argData = data
    /\ argSpec = spec
    /\ argErrs = errs
    /\ retVal = Blank
    /\ retErrs = <<>>
    /\ raised = ""
    /\ raisedMsg = ""
    /\ dataAfter = Blank
    /\ specAfter = Blank
    /\ trace = <<>>
    /\ topAfter = Blank
    /\ retIsArg = FALSE

InitTransform ==
    \E data \in TransformData :
        \E spec \in TransformSpecs \cup {data} : InitCall("transform", data, spec, FALSE)

\* The caller's arguments on the heap, the record of the steps in front.
LoadTwo(a, b) ==
    Let(Load(TraceHeap, a), LAMBDA d :
    Let(Load(d.h, b), LAMBDA s : [h |-> s.h, d |-> d.v, s |-> s.v, x |-> UNDEF]))
LoadThree(a, b, c) ==
    Let(LoadTwo(a, b), LAMBDA l :
    Let(Load(l.h, c), LAMBDA x : [h |-> x.h, d |-> l.d, s |-> l.s, x |-> x.v]))
\* The caller's arguments and an empty list of its own for the errors.
NewErrs(c) ==
    Let(Alloc(c.h, "list", <<>>), LAMBDA e :
    [h |-> e.h, d |-> c.d, s |-> c.s, x |-> c.x, errs |-> e.v])

\* The caller calls transform(data, spec) and reads back the result and its
\* own two arguments.
Transform ==
    /\ callOp = "transform"
    /\ pc = "call"
    /\ Let(LoadTwo(argData, argSpec), LAMBDA c :
       Let(Call("transform", <<c.h, c.d, c.s, NoInjdef>>), LAMBDA r :
           /\ raised' = r.exc
           /\ trace' = TraceOf(r.h)
           /\ topAfter' = IF r.exc = "" THEN Deref(r.h, getprop(r.h, r.inj.parent, "$TOP", UNDEF)) ELSE Blank
           /\ retVal' = IF r.exc = "" THEN Deref(r.h, r.out) ELSE Blank
           /\ dataAfter' = Deref(r.h, c.d)
           /\ specAfter' = Deref(r.h, c.s)))
    /\ pc' = "done"
    /\ UNCHANGED <<callOp, argData, argSpec, argErrs, retErrs, raisedMsg, retIsArg>>

SpecTransform == InitTransform /\ [][Transform]_vars

InitValidate ==
    \E data \in ValidateData :
        \E spec \in ValidateShapes \cup {data} :
            \E errs \in BOOLEAN : InitCall("validate", data, spec, errs)

\* The caller calls validate(data, spec), or validate(data, spec, {errs: []})
\* with a list of its own, and reads back the result, the exception raised
\* and its two arguments. retErrs is the list the errors were recorded in:
\* the caller's own when it gave one, else the list validate made.
Validate ==
    /\ callOp = "validate"
    /\ pc = "call"
    /\ Let(NewErrs(LoadTwo(argData, argSpec)), LAMBDA c :
       Let(Call("validate", <<c.h, c.d, c.s,
                              IF argErrs THEN ValidateInjdef(c.errs, UNDEF, UNDEF)
                              ELSE NoValidateInjdef>>), LAMBDA r :
           /\ raised' = r.exc
           /\ trace' = TraceOf(r.h)
           /\ topAfter' = IF r.exc = "" THEN Deref(r.h, getprop(r.h, r.inj.parent, "$TOP", UNDEF)) ELSE Blank
           /\ raisedMsg' = r.msg
           /\ retVal' = IF r.exc = "" THEN Deref(r.h, r.out) ELSE Blank
           /\ retErrs' = AsSeq([i \in 1..Len(NodeItems(r.h, r.errs)) |->
                                    Payload(NodeItems(r.h, r.errs)[i])])
           /\ dataAfter' = Deref(r.h, c.d)
           /\ specAfter' = Deref(r.h, c.s)))
    /\ pc' = "done"
    /\ UNCHANGED <<callOp, argData, argSpec, argErrs, retIsArg>>

SpecValidate == InitValidate /\ [][Validate]_vars

\* The caller calls validate(data, spec, {errs: [], extra}) with a list of
\* its own and an extra (argErrs), and reads back as in Validate.
ValidateExtra ==
    /\ callOp = "validate_extra"
    /\ pc = "call"
    /\ Let(NewErrs(LoadThree(argData, argSpec, argErrs)), LAMBDA c :
       Let(Call("validate", <<c.h, c.d, c.s, ValidateInjdef(c.errs, UNDEF, c.x)>>), LAMBDA r :
           /\ raised' = r.exc
           /\ trace' = TraceOf(r.h)
           /\ topAfter' = IF r.exc = "" THEN Deref(r.h, getprop(r.h, r.inj.parent, "$TOP", UNDEF)) ELSE Blank
           /\ raisedMsg' = r.msg
           /\ retVal' = IF r.exc = "" THEN Deref(r.h, r.out) ELSE Blank
           /\ retErrs' = AsSeq([i \in 1..Len(NodeItems(r.h, r.errs)) |->
                                    Payload(NodeItems(r.h, r.errs)[i])])
           /\ dataAfter' = Deref(r.h, c.d)
           /\ specAfter' = Deref(r.h, c.s)))
    /\ pc' = "done"
    /\ UNCHANGED <<callOp, argData, argSpec, argErrs, retIsArg>>

InitSelect ==
    \E children \in SelectChildren :
        \E query \in SelectQueries : InitCall("select", children, query, FALSE)

\* The caller calls select(children, query) and reads back the list returned
\* and its two arguments.
Select ==
    /\ callOp = "select"
    /\ pc = "call"
    /\ Let(Load(<<>>, argData), LAMBDA d :
       Let(Load(d.h, argSpec), LAMBDA s :
       Let(Call("select", <<s.h, d.v, s.v>>), LAMBDA r :
           /\ raised' = r.exc
           /\ retVal' = IF r.exc = ""
                        THEN <<"list", AsSeq([i \in 1..Len(r.out) |-> Deref(r.h, r.out[i])])>>
                        ELSE Blank
           /\ dataAfter' = Deref(r.h, d.v)
           /\ specAfter' = Deref(r.h, s.v))))
    /\ pc' = "done"
    /\ UNCHANGED <<callOp, argData, argSpec, argErrs, retErrs, raisedMsg, trace, topAfter, retIsArg>>

SpecSelect == InitSelect /\ [][Select]_vars

\* The value of a tree at a key of a map, and the keys of a map.
TreeGet(t, k) ==
    IF Tag(t) = "map" /\ EntryIdx(Payload(t), k) # 0
    THEN Payload(t)[EntryIdx(Payload(t), k)][2]
    ELSE UNDEF

TreeKeys(t) == IF Tag(t) = "map" THEN { Payload(t)[i][1] : i \in 1..Len(Payload(t)) } ELSE {}

\* The value of the tree t at the path p of keys and list indexes, both as
\* strings.
RECURSIVE TreeAt(_, _)
TreeAt(t, p) ==
    IF p = <<>> THEN t
    ELSE IF Tag(t) = "map" THEN TreeAt(TreeGet(t, Head(p)), Tail(p))
    ELSE IF Tag(t) = "list" /\ IsIntStr(Head(p)) /\ StrInt(Head(p)) < Len(Payload(t))
    THEN TreeAt(Payload(t)[StrInt(Head(p)) + 1], Tail(p))
    ELSE UNDEF

\* The keys of a node as strings, and the paths of the tree that end in a
\* scalar.
NodeKeys(t) ==
    IF Tag(t) = "list" THEN { IdxStr(i - 1) : i \in 1..Len(Payload(t)) } ELSE TreeKeys(t)

RECURSIVE LeafPaths(_)
LeafPaths(t) ==
    IF t = UNDEF THEN {}
    ELSE IF IsLeaf(t) THEN { <<>> }
    ELSE UNION { { <<k>> \o p : p \in LeafPaths(TreeAt(t, <<k>>)) } : k \in NodeKeys(t) }

\* The paths of the tree that end in a list or a map.
RECURSIVE NodePaths(_)
NodePaths(t) ==
    IF IsLeaf(t) THEN {}
    ELSE { <<>> } \cup UNION { { <<k>> \o p : p \in NodePaths(TreeAt(t, <<k>>)) } : k \in NodeKeys(t) }

\* The node of the heap at the path p below v.
RECURSIVE RefAt(_, _, _)
RefAt(h, v, p) == IF p = <<>> THEN v ELSE RefAt(h, getprop(h, v, Head(p), UNDEF), Tail(p))

\* The values the caller hands to clone.
CloneLeaves == { UNDEF, Num(1), Str("x"), Fn("f0"), Str("^$FUNCTION:0^") }
CloneTrees == TreesUpTo(MaxSize, CloneLeaves, TransformKeys)

InitClone == \E v \in CloneTrees : InitCall("clone", v, UNDEF, FALSE)

\* The caller calls c = clone(v), keeps what c is, sets a property of one of
\* the nodes of c (none when c has no node), and reads v and c again.
Clone ==
    /\ callOp = "clone"
    /\ pc = "call"
    /\ \E p \in NodePaths(argData) \cup { <<>> } :
       Let(Load(<<>>, argData), LAMBDA v :
       Let(clone(v.h, v.v), LAMBDA c :
       Let(setprop(c.h, RefAt(c.h, c.v, p), IF islist(c.h, RefAt(c.h, c.v, p)) THEN "0" ELSE "b",
                   Num(9)), LAMBDA m :
           /\ raised' = c.exc
           /\ retVal' = IF c.exc = "" THEN Deref(c.h, c.v) ELSE Blank
           /\ dataAfter' = Deref(m, v.v)
           /\ specAfter' = IF c.exc = "" THEN Deref(m, c.v) ELSE Blank)))
    /\ pc' = "done"
    /\ UNCHANGED <<callOp, argData, argSpec, argErrs, retErrs, raisedMsg, trace, topAfter, retIsArg>>

SpecClone == InitClone /\ [][Clone]_vars

\* The values the caller hands to walk.
WalkLeaves == { UNDEF, Num(1), Str("x") }
WalkTrees ==
    TreesUpTo(MaxSize, WalkLeaves, TransformKeys)
    \cup { <<"map", << <<"b", x>>, <<"a", <<"list", <<x>> >> >> >> >> : x \in WalkLeaves }

InitWalk == \E v \in WalkTrees : InitCall("walk", v, UNDEF, FALSE)

\* The caller calls walk(v, walklog) and reads back the value returned, the
\* log and v.
Walk ==
    /\ callOp = "walk"
    /\ pc = "call"
    /\ Let(Load(<<>>, argData), LAMBDA v :
       Let(walk(v.h, v.v, "walklog", <<>>, UndefKey, UNDEF, <<>>), LAMBDA w :
           /\ retVal' = Deref(w.h, w.v)
           /\ retErrs' = w.st
           /\ dataAfter' = Deref(w.h, v.v)))
    /\ pc' = "done"
    /\ UNCHANGED <<callOp, argData, argSpec, argErrs, raised, raisedMsg, specAfter, trace, topAfter, retIsArg>>

SpecWalk == InitWalk /\ [][Walk]_vars

\* The stores, positions and paths the caller hands to getpath: the data
\* {x: {y: {z: v}}} with or without a z beside x, as the store itself or under
\* $TOP; the position of an injection in the data, dpath with the node
\* dparent found there; absolute and relative paths.
GetpathData ==
    { <<"map", << <<"x", <<"map", << <<"y", <<"map", << <<"z", v>> >> >> >> >> >> >> >> >> :
        v \in { Num(9), Num(1), Str("x") } }
    \cup { <<"map", << <<"x", <<"map", << <<"y", <<"map", << <<"z", v>> >> >> >> >> >> >>,
                        <<"z", Num(2)>> >> >> : v \in { Num(9), Num(1), Str("x") } }
GetpathStores == GetpathData \cup { <<"map", << <<"$TOP", d>> >> >> : d \in GetpathData }
GetpathDpaths == { <<"$TOP">>, <<"$TOP", "x">>, <<"$TOP", "x", "y">> }
GetpathPaths ==
    { ".", "..", "...", ".y", ".z", ".y.z", "..x", "..z", "..x.y", "...x", "....x", "x.y.z" }

\* The data of a store.
DataOf(store) == IF TreeGet(store, "$TOP") # UNDEF THEN TreeGet(store, "$TOP") ELSE store

\* The arguments of one call, as the map the caller keeps them in.
GetpathArgs(path, dparent, dpath) ==
    <<"map", << <<"path", Str(path)>>, <<"dparent", dparent>>,
                <<"dpath", <<"list", AsSeq([i \in 1..Len(dpath) |-> Str(dpath[i])])>> >> >> >>

StrsOf(t) == AsSeq([i \in 1..Len(Payload(t)) |-> Payload(Payload(t)[i])])

\* What getpath reads of an injdef that is the dict {dparent, dpath} (lines
\* 1008-1012): base, meta, key and handler are absent.
GetpathInjdef(dparent, dpath) ==
    [InjectState("val", FALSE, 0, <<>>, UndefKey, UNDEF, UNDEF, <<>>, <<>>, NoFn, UNDEF, UNDEF,
                 "", NoFn) EXCEPT !.dparent = dparent, !.dpath = dpath]

InitGetpath ==
    \E store \in GetpathStores : \E dpath \in GetpathDpaths : \E path \in GetpathPaths :
        InitCall("getpath", store,
                 GetpathArgs(path, TreeAt(DataOf(store), Tail(dpath)), dpath), FALSE)

\* The caller calls getpath(store, path, {dparent, dpath}) and reads back
\* the value found and the store.
Getpath ==
    /\ callOp = "getpath"
    /\ pc = "call"
    /\ Let(Load(<<>>, argData), LAMBDA st :
       Let(Load(st.h, TreeGet(argSpec, "dparent")), LAMBDA dp :
       Let(getpath(dp.h, st.v, TreeGet(argSpec, "path"),
                   GetpathInjdef(dp.v, StrsOf(TreeGet(argSpec, "dpath")))), LAMBDA g :
           /\ raised' = g.exc
           /\ retVal' = IF g.exc = "" THEN Deref(g.h, g.out) ELSE Blank
           /\ dataAfter' = Deref(g.h, st.v))))
    /\ pc' = "done"
    /\ UNCHANGED <<callOp, argData, argSpec, argErrs, retErrs, raisedMsg, specAfter, trace, topAfter, retIsArg>>

SpecGetpath == InitGetpath /\ [][Getpath]_vars

\* Data with functions of the caller in it, f4 of four parameters and f0 of
\* none, and the specs that refer to a by its path and by $COPY.
TransformFnLeaves == { Fn("f4"), Fn("f0"), Num(1) }
TransformFnData == TreesUpTo(MaxSize, TransformFnLeaves, TransformKeys)
RefSpec == <<"map", << <<"x", Str("^a^")>> >> >>
CopySpec == <<"map", << <<"a", Str("^$COPY^")>>, <<"b", Str("^a^")>> >> >>
TransformFnSpecs == { RefSpec, CopySpec }

InitTransformFn ==
    \E data \in TransformFnData :
        \E spec \in TransformFnSpecs \cup {data} : InitCall("transform", data, spec, FALSE)

SpecTransformFn == InitTransformFn /\ [][Transform]_vars

\* The data, specs and extras the caller hands to transform with an injdef
\* {extra}: data with null entries; the spec that asks for a copy of every
\* leaf of the data, the spec of the example, and specs that ask for copies
\* the data may not have; no extra, the extra of the example, and extras
\* that hold a key of the data.
ExtraLeaves == { UNDEF, Num(1), Str("x") }
ExtraData == TreesUpTo(MaxSize, ExtraLeaves, TransformKeys)

RECURSIVE CopyAll(_)
CopyAll(t) ==
    IF IsLeaf(t) THEN Str("^$COPY^")
    ELSE IF Tag(t) = "list" THEN <<"list", AsSeq([i \in 1..Len(Payload(t)) |-> CopyAll(Payload(t)[i])])>>
    ELSE <<"map", AsSeq([i \in 1..Len(Payload(t)) |->
                            <<Payload(t)[i][1], CopyAll(Payload(t)[i][2])>>])>>

UpperSpec ==
    <<"map", << <<"x", Str("^a^")>>, <<"b", Str("^$COPY^")>>, <<"c", Str("^$UPPER^")>> >> >>
ExtraSpecs ==
    { UpperSpec,
      <<"map", << <<"a", Str("^$COPY^")>>, <<"b", Str("^$COPY^")>> >> >>,
      <<"map", << <<"a", <<"map", << <<"a", Str("^$COPY^")>>, <<"b", Str("^$COPY^")>> >> >> >> >> >> }
Extras ==
    { UNDEF,
      <<"map", << <<"b", Num(2)>>, <<"$UPPER", Fn("upper_func")>> >> >>,
      <<"map", << <<"a", <<"list", << Num(3) >> >> >>, <<"$UPPER", Fn("upper_func")>> >> >>,
      <<"map", << <<"a", <<"map", << <<"b", Num(3)>> >> >> >> >> >> }

InitTransformExtra ==
    \E data \in ExtraData : \E spec \in ExtraSpecs \cup { CopyAll(data) } : \E extra \in Extras :
        InitCall("transform_extra", data, spec, extra)

\* The caller calls transform(data, spec, {extra}) and reads back the result
\* and its own arguments; argErrs is the extra.
TransformExtra ==
    /\ callOp = "transform_extra"
    /\ pc = "call"
    /\ Let(LoadThree(argData, argSpec, argErrs), LAMBDA c :
       Let(Call("transform", <<c.h, c.d, c.s, Injdef(NoFn, UNDEF, NoFn, c.x, UNDEF, <<>>)>>),
           LAMBDA r :
           /\ raised' = r.exc
           /\ trace' = TraceOf(r.h)
           /\ topAfter' = IF r.exc = "" THEN Deref(r.h, getprop(r.h, r.inj.parent, "$TOP", UNDEF)) ELSE Blank
           /\ retVal' = IF r.exc = "" THEN Deref(r.h, r.out) ELSE Blank
           /\ dataAfter' = Deref(r.h, c.d)
           /\ specAfter' = Deref(r.h, c.s)))
    /\ pc' = "done"
    /\ UNCHANGED <<callOp, argData, argSpec, argErrs, retErrs, raisedMsg, retIsArg>>

SpecTransformExtra == InitTransformExtra /\ [][TransformExtra]_vars

\* The data and specs the caller hands to transform for $EACH: the data
\* holds the source under a, a list or a map of at most MaxKids elements or
\* a value that is no node, and may hold a value of its own under b; the
\* template refers to b, holds a literal (with a further sibling after it in
\* the command list), or asks for a copy of b.
EachElems ==
    { Num(1), <<"map", << <<"b", Num(1)>> >> >>, <<"map", << <<"b", Str("x")>> >> >>,
      <<"map", << <<"a", Num(1)>> >> >> }
EachSources ==
    { UNDEF, Num(1) }
    \cup { <<"list", xs>> : xs \in UNION { [1..n -> EachElems] : n \in 0..MaxKids } }
    \cup { <<"map", << <<"a", e>> >> >> : e \in EachElems }
    \cup { <<"map", << <<"b", e>> >> >> : e \in EachElems }
    \cup { <<"map", << <<"a", e[1]>>, <<"b", e[2]>> >> >> : e \in EachElems \X EachElems }
EachData ==
    { <<"map", (IF src = UNDEF THEN <<>> ELSE << <<"a", src>> >>) \o top>> :
        src \in EachSources, top \in { <<>>, << <<"b", Num(2)>> >> } }

EachSpec(siblings) == <<"map", << <<"x", <<"list", << Str("^$EACH^"), Str("a") >> \o siblings>> >> >> >>
EachTemplates ==
    { << <<"map", << <<"y", Str("^b^")>> >> >> >>,
      << <<"map", << <<"y", Num(1)>> >> >>, Str("^$DELETE^") >>,
      << <<"map", << <<"b", Str("^$COPY^")>> >> >> >> }
EachSpecs == { EachSpec(siblings) : siblings \in EachTemplates }

InitTransformEach ==
    \E data \in EachData : \E spec \in EachSpecs : InitCall("transform", data, spec, FALSE)

SpecTransformEach == InitTransformEach /\ [][Transform]_vars
\* The two values the caller hands to merge.
MergeLeaves == { Num(1), Num(2) }
MergeTrees == TreesUpTo(MaxSize, MergeLeaves, TransformKeys)

InitMerge ==
    \E a \in MergeTrees : \E b \in MergeTrees : InitCall("merge", a, b, FALSE)

\* The caller calls merge([a, b]) and reads back the value returned and the
\* two elements of its list.
Merge ==
    /\ callOp = "merge"
    /\ pc = "call"
    /\ Let(Load(<<>>, argData), LAMBDA a :
       Let(Load(a.h, argSpec), LAMBDA b :
       Let(merge(b.h, <<a.v, b.v>>), LAMBDA r :
           /\ retVal' = Deref(r.h, r.v)
           /\ dataAfter' = Deref(r.h, a.v)
           /\ specAfter' = Deref(r.h, b.v))))
    /\ pc' = "done"
    /\ UNCHANGED <<callOp, argData, argSpec, argErrs, retErrs, raised, raisedMsg, trace, topAfter, retIsArg>>

SpecMerge == InitMerge /\ [][Merge]_vars

\* The data and specs the caller hands to transform for the map form of
\* $MERGE: the data holds one argument under a and one under b; the spec
\* merges the first or both into the map at x, which holds a literal of its
\* own under a or nothing else.
MergeCmdData ==
    { <<"map", << <<"a", m[1]>>, <<"b", m[2]>> >> >> : m \in MergeTrees \X MergeTrees }
MergeCmdSpec(args, literals) ==
    <<"map", << <<"x", <<"map", << <<"^$MERGE^", args>> >> \o literals>> >> >> >>
MergeCmdArgs == { Str("^a^"), <<"list", << Str("^a^"), Str("^b^") >> >> }
MergeCmdLiterals == { <<>>, << <<"a", Num(9)>> >>, << <<"a", <<"map", << <<"b", Num(9)>> >> >> >> >> }
MergeCmdSpecs == { MergeCmdSpec(args, literals) : args \in MergeCmdArgs, literals \in MergeCmdLiterals }

InitTransformMerge ==
    \E data \in MergeCmdData : \E spec \in MergeCmdSpecs : InitCall("transform", data, spec, FALSE)

SpecTransformMerge == InitTransformMerge /\ [][Transform]_vars

\* The data and specs the caller hands to transform for $MERGE with the
\* empty string as its argument: the command at the root of the spec or in
\* the map at x, beside a literal under a or alone.
TopMergeData == TreesUpTo(MaxSize, SelectLeaves, TransformKeys)
TopMergeParents ==
    { <<"map", << <<"^$MERGE^", Str("")>> >> \o literals>> :
        literals \in { <<>>, << <<"a", Num(3)>> >> } }
TopMergeSpecs ==
    TopMergeParents \cup { <<"map", << <<"x", parent>> >> >> : parent \in TopMergeParents }

InitTransformTop ==
    \E data \in TopMergeData : \E spec \in TopMergeSpecs : InitCall("transform", data, spec, FALSE)

SpecTransformTop == InitTransformTop /\ [][Transform]_vars

\* The data, specs and extras the caller hands to transform for $REF: the
\* specs that the functions under $SPEC return, each with any of the
\* functions in the extra or with none; data that holds values along the
\* paths of the references, some deeper than MaxSize cells.
RefKeys == <<"a", "x", "y">>
RefSpecFuncs == { "spec_self", "spec_tree", "spec_plain", "spec_inj", "spec_list" }
MapOf(k, v) == <<"map", << <<k, v>> >> >>
RefData ==
    TreesUpTo(MaxSize, { Num(1) }, RefKeys)
    \cup { MapOf("a", MapOf("a", Num(1))),
           MapOf("x", MapOf("y", MapOf("y", <<"map", <<>> >>))),
           MapOf("x", MapOf("y", MapOf("x", MapOf("y", Num(1))))) }
RefSpecs == { SpecFuncs(name) : name \in RefSpecFuncs }
RefExtras == { UNDEF } \cup { <<"map", << <<"$SPEC", Fn(name)>> >> >> : name \in RefSpecFuncs }

InitTransformRef ==
    \E data \in RefData : \E spec \in RefSpecs : \E extra \in RefExtras :
        InitCall("transform_extra", data, spec, extra)

SpecTransformRef == InitTransformRef /\ [][TransformExtra]_vars

\* The data and shapes the caller hands to validate for $CHILD: the command
\* as a key of a map shape and as the first element of a list shape, at the
\* root and under key a, with a type command or an example as the template.
ChildLeaves == { Num(1), Str("x") }
ChildData == TreesUpTo(MaxSize, ChildLeaves, TransformKeys)
ChildTemplates == { Str("^$NUMBER^"), Str("^$STRING^"), <<"map", << <<"a", Num(1)>> >> >> }
ChildMapShape(T) == <<"map", << <<"^$CHILD^", T>> >> >>
ChildListShape(T) == <<"list", << Str("^$CHILD^"), T >> >>
ChildShapes ==
    { ChildMapShape(T) : T \in ChildTemplates }
    \cup { ChildListShape(T) : T \in ChildTemplates }
    \cup { MapOf("a", ChildMapShape(T)) : T \in ChildTemplates }
    \cup { MapOf("a", ChildListShape(T)) : T \in ChildTemplates }
    \cup { <<"map", << <<"b", Str("x")>>, <<"^$CHILD^", Num(1)>> >> >> }

InitValidateChild ==
    \E data \in ChildData : \E spec \in ChildShapes :
        \E errs \in BOOLEAN : InitCall("validate", data, spec, errs)

SpecValidateChild == InitValidateChild /\ [][Validate]_vars
\* The data, shapes and extra the caller hands to validate for $EACH, which
\* validate takes out of the store (line 2064) and the extra puts back: the
\* source under a is a list of at most MaxKids elements, the template a
\* validator command or a map with one.
ValidateEachElems == { Num(1), Str("x"), MapOf("y", Num(1)), MapOf("y", Str("x")) }
ValidateEachData ==
    { <<"map", << <<"a", <<"list", es>> >> >> \o rest >> :
          es \in UNION { [1..n -> ValidateEachElems] : n \in 0..MaxKids },
          rest \in { <<>>, << <<"b", Num(1)>> >> } }
ValidateEachTemplates == { Str("^$STRING^"), Str("^$NUMBER^"), MapOf("y", Str("^$STRING^")) }
ValidateEachShape(T, rest) == <<"map", << <<"a", <<"list", << Str("^$EACH^"), Str("a"), T >> >> >> >> \o rest >>
ValidateEachShapes ==
    { ValidateEachShape(T, rest) : T \in ValidateEachTemplates,
                                   rest \in { <<>>, << <<"b", Str("^$STRING^")>> >> } }
EachExtra == <<"map", << <<"$EACH", Fn("transform_EACH")>> >> >>

InitValidateEach ==
    \E data \in ValidateEachData : \E spec \in ValidateEachShapes :
        InitCall("validate_extra", data, spec, EachExtra)

SpecValidateEach == InitValidateEach /\ [][ValidateExtra]_vars

\* The data and specs the caller hands to transform for $DELETE in a list:
\* the spec is a list of references and `$DELETE`, of at most MaxDeleteLen
\* elements or one of two longer ones, at the root or under key x.
MaxDeleteLen == 3
DeleteElems == { Str("^a^"), Str("^b^"), Str("^$DELETE^") }
DeleteLists ==
    { es \in UNION { [1..n -> DeleteElems] : n \in 1..MaxDeleteLen } :
          \E i \in 1..Len(es) : es[i] = Str("^$DELETE^") }
    \cup { << Str("^$DELETE^"), Str("^a^"), Str("^b^"), Str("^a^"), Str("^b^") >>,
           << Str("^a^"), Str("^$DELETE^"), Str("^b^"), Str("^a^") >> }
DeleteData ==
    { <<"map", << <<"a", Num(1)>>, <<"b", Num(2)>> >> >>,
      <<"map", << <<"a", Str("x")>>, <<"b", MapOf("a", Num(1))>> >> >> }
DeleteSpecs == { <<"list", es>> : es \in DeleteLists } \cup { MapOf("x", <<"list", es>>) : es \in DeleteLists }

InitTransformDelete ==
    \E data \in DeleteData : \E spec \in DeleteSpecs : InitCall("transform", data, spec, FALSE)

SpecTransformDelete == InitTransformDelete /\ [][Transform]_vars

\* The values and stores the caller hands to inject: the store is a map of
\* data, as it is or under $TOP; the value holds references to it.
InjectLeaves == { Num(1), Str("x"), Str("^a^"), Str("^b^") }
InjectVals == TreesUpTo(MaxSize, InjectLeaves, TransformKeys)
InjectData == { MapOf("a", v) : v \in { Num(2), Str("y"), MapOf("b", Num(2)), <<"list", << Num(2) >> >> } }
InjectStores == InjectData \cup { MapOf("$TOP", d) : d \in InjectData }

InitInject ==
    \E val \in InjectVals : \E store \in InjectStores : InitCall("inject", store, val, FALSE)

\* The caller calls inject(val, store) and reads back the result, its val
\* and its store; it also looks whether the result is its val itself.
Inject ==
    /\ callOp = "inject"
    /\ pc = "call"
    /\ Let(Load(TraceHeap, argData), LAMBDA st :
       Let(Load(st.h, argSpec), LAMBDA v :
       Let(Call("injectRoot", <<v.h, v.v, st.v, NoInjdef>>), LAMBDA r :
           /\ raised' = r.exc
           /\ trace' = TraceOf(r.h)
           /\ topAfter' = IF r.exc = "" THEN Deref(r.h, getprop(r.h, r.inj.parent, "$TOP", UNDEF))
                          ELSE Blank
           /\ retVal' = IF r.exc = "" THEN Deref(r.h, r.out) ELSE Blank
           /\ retIsArg' = (r.exc = "" /\ isnode(r.h, r.out) /\ r.out = v.v)
           /\ dataAfter' = Deref(r.h, st.v)
           /\ specAfter' = Deref(r.h, v.v))))
    /\ pc' = "done"
    /\ UNCHANGED <<callOp, argData, argSpec, argErrs, retErrs, raisedMsg>>

SpecInject == InitInject /\ [][Inject]_vars

Init == InitTransform \/ InitValidate \/ InitSelect \/ InitMerge \/ InitClone \/ InitWalk \/ InitGetpath
        \/ InitTransformFn \/ InitTransformExtra \/ InitTransformEach \/ InitTransformMerge
        \/ InitTransformTop \/ InitTransformRef
        \/ InitValidateChild \/ InitValidateEach \/ InitInject
        \/ InitTransformDelete
Next == Transform \/ Validate \/ Select \/ Merge \/ Clone \/ Walk \/ Getpath
        \/ TransformExtra \/ ValidateExtra \/ Inject
Spec == Init /\ [][Next]_vars

-----------------------------------------------------------------------------
(* Properties of transform *)

\* C1: for every JSON value d with no backquote reference or command in it,
\* transform(d, d) raises nothing and returns a value equal to d.
C1_TransformSelf ==
    (pc = "done" /\ callOp = "transform" /\ argSpec = argData /\ ~HasBackquote(argData))
        => (raised = "" /\ retVal = argData)

\* A call transform(d, d) has returned for a nested d that holds a string
\* with a dollar sign and no backquote.
C1_Witness ==
    /\ pc = "done" /\ callOp = "transform" /\ argSpec = argData
    /\ argData = <<"map", << <<"a", <<"list", << Str("x$") >> >> >> >> >>
    /\ retVal = argData

\* C2: transform leaves the caller's data and the caller's spec as they were
\* before the call, whatever the spec holds ($DELETE, $COPY, $MERGE, $EACH
\* included).
C2_TransformKeepsArguments ==
    (pc = "done" /\ callOp = "transform") => (dataAfter = argData /\ specAfter = argSpec)

\* A $MERGE spec has been transformed over data that has a map at a: the
\* result is no longer the spec, and both arguments are as they were.
C2_Witness ==
    /\ pc = "done" /\ callOp = "transform" /\ raised = ""
    /\ argSpec = <<"map", << <<"^$MERGE^", <<"list", << Str("^a^"),
                                <<"map", << <<"x", Num(1)>> >> >> >> >> >> >> >>
    /\ argData = <<"map", << <<"a", <<"map", << <<"b", Num(1)>> >> >> >> >> >>
    /\ retVal = <<"map", << <<"b", Num(1)>>, <<"x", Num(1)>> >> >>
    /\ dataAfter = argData /\ specAfter = argSpec

-----------------------------------------------------------------------------
(* Properties of validate *)

\* The value a tree holds at key k: UNDEF for no value.
\* A map somewhere in the tree has the key k.
RECURSIVE HasKeyDeep(_, _)
HasKeyDeep(t, k) ==
    IF IsLeaf(t) THEN FALSE
    ELSE IF Tag(t) = "list" THEN \E i \in 1..Len(Payload(t)) : HasKeyDeep(Payload(t)[i], k)
    ELSE \E i \in 1..Len(Payload(t)) : Payload(t)[i][1] = k \/ HasKeyDeep(Payload(t)[i][2], k)

\* The tree without the keys that have no value.
RECURSIVE Prune(_)
Prune(t) ==
    IF IsLeaf(t) THEN t
    ELSE IF Tag(t) = "list"
    THEN <<"list", AsSeq([i \in 1..Len(Payload(t)) |-> Prune(Payload(t)[i])])>>
    ELSE <<"map", Let(SelectSeq(Payload(t), LAMBDA e : e[2] # UNDEF), LAMBDA es :
                  AsSeq([i \in 1..Len(es) |-> <<es[i][1], Prune(es[i][2])>>]))>>

TreeType(t) ==
    CASE Tag(t) = "list" -> "array"
      [] Tag(t) = "map" -> "object"
      [] OTHER -> typify(<<>>, t)

TypeOfCmd(cmd) ==
    CASE cmd = "^$STRING^" -> "string"   [] cmd = "^$NUMBER^" -> "number"
      [] cmd = "^$BOOLEAN^" -> "boolean" [] cmd = "^$OBJECT^" -> "object"
      [] cmd = "^$ARRAY^" -> "array"     [] cmd = "^$FUNCTION^" -> "function"

ValidateDone == pc = "done" /\ callOp = "validate"

\* C3: validate raises, with the message "Invalid data: " and the errors
\* joined by " | ", exactly when the caller gave no errs list and an error was
\* recorded; given an errs list it never raises and returns the data.
C3_RaisesOnlyWithoutCollector ==
    ValidateDone =>
        /\ (raised # "") <=> (~argErrs /\ retErrs # <<>>)
        /\ (raised # "") =>
                (raised = "ValueError" /\ raisedMsg = "Invalid data: " \o Join(retErrs, " | "))
        /\ argErrs => retVal # Blank

\* C4: validate(d, d) returns a value equal to d and records no error, for
\* every JSON value d.
C4_ValidateSelf ==
    (ValidateDone /\ argSpec = argData /\ ~HasFn(argData))
        => (raised = "" /\ retVal = argData /\ retErrs = <<>>)

\* C5: a type-check command at key a of the shape records no error when the
\* data's value at a has the command's type (and is not "" for $STRING),
\* else exactly one error in the format of the type error (or the empty
\* string error); the output keeps the data's value at a either way.
C5_TypeCheck ==
    \A cmd \in TypeCmds :
        (ValidateDone /\ argErrs /\ argSpec = TypeShape(cmd)
            /\ Tag(argData) = "map" /\ TreeKeys(argData) \subseteq {"a"})
        => LET v == TreeGet(argData, "a")
               fits == TreeType(v) = TypeOfCmd(cmd) /\ ~(cmd = "^$STRING^" /\ v = Str(""))
           IN  /\ raised = ""
               /\ fits => retErrs = <<>>
               /\ ~fits => retErrs =
                    << IF cmd = "^$STRING^" /\ v = Str("") THEN "Empty string at a"
                       ELSE "Expected field a to be " \o TypeOfCmd(cmd) \o ", but found "
                            \o (IF v = UNDEF THEN "no value"
                                ELSE TreeType(v) \o ": " \o stringifyTree(v))
                            \o "." >>
               /\ TreeGet(retVal, "a") = v

\* C6: for a scalar s at key a of the shape, the output holds s when the data
\* has no value at a; it holds the data's value, and no error is recorded,
\* when that value has the type of s; an error is recorded when the types
\* differ.
C6_ByExample ==
    \A s \in ExampleLeaves :
        (ValidateDone /\ argErrs /\ argSpec = ExampleShape(s)
            /\ Tag(argData) = "map" /\ TreeKeys(argData) \subseteq {"a"})
        => LET v == TreeGet(argData, "a")
           IN  /\ raised = ""
               /\ v = UNDEF => TreeGet(retVal, "a") = s
               /\ (v # UNDEF /\ TreeType(v) = TreeType(s))
                    => (TreeGet(retVal, "a") = v /\ retErrs = <<>>)
               /\ (v # UNDEF /\ TreeType(v) # TreeType(s)) => retErrs # <<>>

UnexpectedMsgs ==
    { "Unexpected keys at field <root>: " \o ks : ks \in { "a", "b", "a, b" } }
    \cup { "Unexpected keys at field a: " \o ks : ks \in { "a", "b", "a, b" } }

\* C7: a shape map with a key and no $OPEN reports every data key it does not
\* have as unexpected and keeps it out of the output; an empty shape map, or
\* one with $OPEN, records no such error and takes the extra data keys into
\* the output, and the output has no $OPEN key.
C7_OpenClosed ==
    (ValidateDone /\ argErrs /\ Tag(argData) = "map")
    => LET extra == TreeKeys(argData) \ {"a"}
       IN  /\ (argSpec = ExampleShape(Num(1)) /\ extra # {})
                => /\ \E i \in 1..Len(retErrs) : retErrs[i] \in UnexpectedMsgs
                   /\ \A k \in extra : TreeGet(retVal, k) = UNDEF
           /\ argSpec \in { <<"map", <<>> >>, OpenShape(<< <<"a", Num(1)>> >>) }
                => /\ \A i \in 1..Len(retErrs) : retErrs[i] \notin UnexpectedMsgs
                   /\ \A k \in extra : Prune(TreeGet(retVal, k)) = Prune(TreeGet(argData, k))
           /\ argSpec \in { OpenShape(<< <<"a", Num(1)>> >>), NestedOpenShape }
                => (raised = "" /\ ~HasKeyDeep(retVal, "^$OPEN^"))

\* C8: validate(v, [$ONE, $NUMBER, $STRING]) records no error exactly when v
\* is a number or a string that is not empty, and one error otherwise.
C8_One ==
    (ValidateDone /\ argSpec = OneShape)
    => LET fits == \/ TreeType(argData) = "number"
                   \/ (TreeType(argData) = "string" /\ argData # Str(""))
       IN  /\ fits => (raised = "" /\ retErrs = <<>> /\ retVal = argData)
           /\ ~fits => /\ Len(retErrs) = 1
                       /\ raised = (IF argErrs THEN "" ELSE "ValueError")

\* C9: against a slot [$EXACT, v1, ..., vn] at key a of the shape no error
\* is recorded exactly when the data's value at a equals one of the vi in
\* structure; the output then holds the data's value at a, and a mismatch
\* records exactly one error.
C9_Exact ==
    \A vs \in ExactArgs :
        (ValidateDone /\ argErrs /\ argSpec = <<"map", << <<"a", ExactShape(vs)>> >> >>
            /\ Tag(argData) = "map" /\ TreeKeys(argData) \subseteq {"a"})
        => LET v == TreeGet(argData, "a")
               equal == \E i \in 1..Len(vs) : TreeEq(v, vs[i])
           IN  /\ raised = ""
               /\ (retErrs = <<>>) <=> equal
               /\ equal => TreeGet(retVal, "a") = v
               /\ ~equal => Len(retErrs) = 1

-----------------------------------------------------------------------------
(* Properties of select *)

\* The child c holds, at the path of every scalar of the query q, a value
\* equal to that scalar; a key of q with no value asks for nothing.
RECURSIVE QueryMatches(_, _)
QueryMatches(c, q) ==
    IF q = UNDEF THEN TRUE
    ELSE IF IsLeaf(q) THEN c = q
    ELSE IF Tag(q) = "map"
    THEN /\ Tag(c) = "map"
         /\ \A i \in 1..Len(Payload(q)) :
                QueryMatches(TreeGet(c, Payload(q)[i][1]), Payload(q)[i][2])
    ELSE /\ Tag(c) = "list"
         /\ Len(Payload(q)) <= Len(Payload(c))
         /\ \A i \in 1..Len(Payload(q)) : QueryMatches(Payload(c)[i], Payload(q)[i])

\* The children of a node, in list order or in the order of the sorted keys.
KidsOf(t) ==
    IF Tag(t) = "list" THEN Payload(t)
    ELSE AsSeq([i \in 1..Len(Payload(Norm(t))) |-> Payload(Norm(t))[i][2]])

\* The children, as they are after the call, whose values before the call
\* match the query.
RECURSIVE KeptKids(_, _, _)
KeptKids(before, after, q) ==
    IF before = <<>> THEN <<>>
    ELSE (IF QueryMatches(Head(before), q) THEN <<Head(after)>> ELSE <<>>)
         \o KeptKids(Tail(before), Tail(after), q)

\* C10: select returns, in the order of the children, exactly the children
\* that hold an equal value wherever the query holds a scalar, and the empty
\* list for children that are no node.
C10_Select ==
    (pc = "done" /\ callOp = "select")
    => /\ raised = ""
       /\ TreeEq(retVal, IF IsLeaf(argData) THEN <<"list", <<>> >>
                          ELSE <<"list", KeptKids(KidsOf(argData), KidsOf(dataAfter), argSpec)>>)

\* C11: select leaves the caller's children as they were: no key is added to
\* any child, and every element returned is equal to a child as it was given.
C11_SelectKeepsChildren ==
    (pc = "done" /\ callOp = "select")
    => /\ dataAfter = argData
       /\ IsLeaf(argData) \/
          \A i \in 1..Len(Payload(retVal)) :
              \E j \in 1..Len(KidsOf(argData)) : Payload(retVal)[i] = KidsOf(argData)[j]

-----------------------------------------------------------------------------
(* Properties of merge *)

\* Down the path p, a and b hold nodes of the same kind.
SameKindAbove(a, b, p) ==
    \A n \in 0..(Len(p) - 1) :
        /\ ~IsLeaf(TreeAt(a, SubSeq(p, 1, n)))
        /\ ~IsLeaf(TreeAt(b, SubSeq(p, 1, n)))
        /\ Tag(TreeAt(a, SubSeq(p, 1, n))) = Tag(TreeAt(b, SubSeq(p, 1, n)))

\* C12: merge([a, b]) holds b's value at every leaf path of b, a's value at
\* every leaf path of a that b has nothing at, and b's node wherever a and b
\* hold nodes of different kinds.
C12_MergeLeaves ==
    (pc = "done" /\ callOp = "merge")
    => /\ \A p \in LeafPaths(argSpec) : TreeAt(retVal, p) = TreeAt(argSpec, p)
       /\ \A p \in LeafPaths(argData) :
              (SameKindAbove(argData, argSpec, p) /\ TreeAt(argSpec, p) = UNDEF)
                  => TreeAt(retVal, p) = TreeAt(argData, p)
       /\ \A p \in NodePaths(argSpec) :
              (/\ SameKindAbove(argData, argSpec, p)
               /\ ~IsLeaf(TreeAt(argData, p))
               /\ Tag(TreeAt(argData, p)) # Tag(TreeAt(argSpec, p)))
                  => TreeEq(TreeAt(retVal, p), TreeAt(argSpec, p))

-----------------------------------------------------------------------------
(* Properties of clone *)

\* C13: clone(v) is structurally equal to v, a function of v being the same
\* function in the clone, and v is as it was after a property of a node of
\* the clone was set.
C13_CloneEqualAndApart ==
    (pc = "done" /\ callOp = "clone")
    => /\ raised = ""
       /\ TreeEq(retVal, argData)
       /\ dataAfter = argData

-----------------------------------------------------------------------------
(* Properties of walk *)

\* C14: walk(v, apply), for an apply that returns its val argument, returns
\* a value structurally equal to v, also when lists and maps of v hold null
\* entries (a key of a map with no value counts as no key).
C14_WalkIdentity ==
    (pc = "done" /\ callOp = "walk") => TreeEq(Prune(retVal), Prune(argData))


\* The keys of a node in the order of keysof: the indexes of a list, the
\* sorted keys of a map.
OrderedKeys(t) ==
    IF Tag(t) = "list" THEN AsSeq([i \in 1..Len(Payload(t)) |-> IdxStr(i - 1)])
    ELSE SortKeys(EntryKeys(Payload(t)))

\* What is compared of a value seen by the callback: a scalar itself, the
\* kind of a node.
Shape(t) == IF IsLeaf(t) THEN t ELSE <<Tag(t), 0>>

\* The visits of a depth-first post-order traversal of the tree t, reached
\* under key at path: the visits of its children in the order of their keys,
\* then the visit of t.
RECURSIVE PostOrder(_, _, _)
RECURSIVE PostOrderKids(_, _, _)
PostOrder(t, key, path) ==
    (IF IsLeaf(t) THEN <<>> ELSE PostOrderKids(t, OrderedKeys(t), path))
    \o << [key |-> key, val |-> Shape(t), path |-> path] >>

PostOrderKids(t, ks, path) ==
    IF ks = <<>> THEN <<>>
    ELSE PostOrder(TreeAt(t, <<Head(ks)>>), Head(ks), Append(path, Head(ks)))
         \o PostOrderKids(t, Tail(ks), path)

\* C15: walk applies the callback in depth-first post-order: once for every
\* node and leaf, the children of a node in the order of their keys before
\* the node, the root last with no key and no parent, the path being the keys
\* from the root to the value.
C15_WalkPostOrder ==
    (pc = "done" /\ callOp = "walk")
    => /\ AsSeq([i \in 1..Len(retErrs) |->
                    [key |-> retErrs[i].key, val |-> Shape(retErrs[i].val),
                     path |-> retErrs[i].path]])
          = PostOrder(argData, UndefKey, <<>>)
       /\ retErrs[Len(retErrs)].parent = UNDEF
       /\ \A i \in 1..(Len(retErrs) - 1) :
              Tag(retErrs[i].parent) = Tag(TreeAt(argData, SubSeq(retErrs[i].path, 1, Len(retErrs[i].path) - 1)))

\* walk has visited a map whose keys were not given in their order, and a
\* list inside it.
C15_Witness ==
    /\ pc = "done"
    /\ callOp = "walk"
    /\ Tag(argData) = "map"
    /\ Len(Payload(argData)) = 2
    /\ Payload(argData)[1][1] = "b"
    /\ Len(retErrs) = 4
    /\ retErrs[1].path = <<"a", "0">>

-----------------------------------------------------------------------------
(* Properties of getpath *)

\* The number of empty parts a sequence of parts begins with.
RECURSIVE LeadingEmpty(_)
LeadingEmpty(parts) ==
    IF parts # <<>> /\ Head(parts) = "" THEN 1 + LeadingEmpty(Tail(parts)) ELSE 0

\* The dots a path begins with (a path of dots only splits into one part more
\* than it has dots), and the parts after them.
LeadingDots(parts) ==
    IF LeadingEmpty(parts) = Len(parts) THEN Len(parts) - 1 ELSE LeadingEmpty(parts)
Trailing(parts) == SubSeq(parts, LeadingEmpty(parts) + 1, Len(parts))

\* What a path stands for at the position dpath of the data, where dparent
\* is: an absolute path is followed from the store, a path with one dot from
\* dparent, a path with n + 1 dots from the value of the store at dpath less
\* its last n keys, which is nothing when dpath has fewer keys.
Resolved(store, dparent, dpath, parts) ==
    IF LeadingDots(parts) = 0 THEN TreeAt(store, parts)
    ELSE IF LeadingDots(parts) = 1 THEN TreeAt(dparent, Trailing(parts))
    ELSE IF LeadingDots(parts) - 1 > Len(dpath) THEN UNDEF
    ELSE TreeAt(store, SubSeq(dpath, 1, Len(dpath) - (LeadingDots(parts) - 1)) \o Trailing(parts))

GetpathGiven ==
    Resolved(argData, TreeGet(argSpec, "dparent"), StrsOf(TreeGet(argSpec, "dpath")),
             Split(Payload(TreeGet(argSpec, "path"))))

\* The scenario of the specification: the store {x: {y: {z: 9}}}, the
\* position dpath = [$TOP, x] with dparent = {y: {z: 9}}, the path '..z'.
GetpathScenario ==
    /\ argData = <<"map", << <<"x", <<"map", << <<"y", <<"map", << <<"z", Num(9)>> >> >> >> >> >> >> >> >>
    /\ StrsOf(TreeGet(argSpec, "dpath")) = <<"$TOP", "x">>
    /\ TreeGet(argSpec, "path") = Str("..z")

\* C16 as stated: getpath reads a path with one leading dot from inj.dparent
\* and ascends one level along inj.dpath for every further leading dot before
\* it follows the rest of the path, and in the scenario of the specification
\* getpath(store, '..z') is 9.
C16_RelativePathAndScenario ==
    (pc = "done" /\ callOp = "getpath")
    => /\ raised = ""
       /\ retVal = GetpathGiven
       /\ GetpathScenario => retVal = Num(9)

\* C16, amended: getpath reads a path with one leading dot from inj.dparent
\* and ascends one level along inj.dpath for every further leading dot before
\* it follows the rest of the path; in the scenario of the specification
\* getpath(store, '..z') finds nothing, one level above x there being no z,
\* and getpath(store, '.y.z') is 9.
C16_RelativePath ==
    (pc = "done" /\ callOp = "getpath")
    => /\ raised = ""
       /\ retVal = GetpathGiven
       /\ GetpathScenario => retVal = UNDEF

\* getpath has ascended one level from x and found the z beside x.
C16_Witness ==
    /\ pc = "done"
    /\ callOp = "getpath"
    /\ TreeGet(argSpec, "path") = Str("..z")
    /\ StrsOf(TreeGet(argSpec, "dpath")) = <<"$TOP", "x">>
    /\ TreeGet(argData, "$TOP") # UNDEF
    /\ retVal = Num(2)

-----------------------------------------------------------------------------
(* Properties of transform: functions in the data *)

\* C17: a function of the caller's data is never called by transform: where
\* the spec refers to it by its path, or copies it with $COPY, or holds it
\* itself, the result holds the same function, and no call raises.
C17_DataFunctionsNotCalled ==
    (pc = "done" /\ callOp = "transform" /\ HasFn(argData))
    => /\ raised = ""
       /\ argSpec = RefSpec => TreeGet(retVal, "x") = TreeGet(argData, "a")
       /\ argSpec = CopySpec =>
              /\ TreeGet(retVal, "a") = TreeGet(argData, "a")
              /\ TreeGet(retVal, "b") = TreeGet(argData, "a")
       /\ argSpec = argData => retVal = argData

-----------------------------------------------------------------------------
(* Properties of transform: $COPY and the extra of an injdef *)

\* The tree without its null entries: the keys of maps that have no value,
\* and the elements of lists that are null.
RECURSIVE Compact(_)
Compact(t) ==
    IF IsLeaf(t) THEN t
    ELSE IF Tag(t) = "list"
    THEN <<"list", Let(SelectSeq(Payload(t), LAMBDA x : x # UNDEF), LAMBDA xs :
                   AsSeq([i \in 1..Len(xs) |-> Compact(xs[i])]))>>
    ELSE <<"map", Let(SelectSeq(Payload(t), LAMBDA e : e[2] # UNDEF), LAMBDA es :
                  AsSeq([i \in 1..Len(es) |-> <<es[i][1], Compact(es[i][2])>>]))>>

\* The value under key k of the data a spec reads when the extra is laid
\* under the data: the data's own value where it has the key, be it null,
\* else the extra's.
UnderData(k) ==
    IF k \in TreeKeys(argData) THEN TreeGet(argData, k) ELSE TreeGet(argErrs, k)

\* The data and the extra both hold a list, or both a map, under key k, so
\* that the two are merged; or the data holds a node with nothing but null
\* entries in it.
BothNodes(k) ==
    \/ /\ ~IsLeaf(TreeGet(argData, k))
       /\ ~IsLeaf(TreeGet(argErrs, k))
       /\ Tag(TreeGet(argData, k)) = Tag(TreeGet(argErrs, k))
    \/ /\ ~IsLeaf(TreeGet(argData, k))
       /\ Payload(Compact(TreeGet(argData, k))) = <<>>

\* C18: $COPY writes into its slot the value the data holds under the same
\* key at the same depth, and leaves no slot where the data holds none; the
\* keys of extra without a '$' lie under the data, the data's value winning,
\* and a function of extra under a '$' key is called as a command, so that
\* $UPPER gives the key of its slot in upper case.
C18_CopyAndExtra ==
    (pc = "done" /\ callOp = "transform_extra")
    => /\ raised = ""
       /\ (argSpec = CopyAll(argData) /\ argErrs = UNDEF)
              => TreeEq(Compact(retVal), Compact(argData))
       /\ (argSpec = UpperSpec /\ Tag(argData) = "map")
              => /\ BothNodes("a") \/ TreeEq(Compact(TreeGet(retVal, "x")), Compact(UnderData("a")))
                 /\ BothNodes("b") \/ TreeEq(Compact(TreeGet(retVal, "b")), Compact(UnderData("b")))
                 /\ TreeGet(argErrs, "$UPPER") # UNDEF => TreeGet(retVal, "c") = Str("C")

-----------------------------------------------------------------------------
(* Properties of $EACH *)

\* The elements of a source in source order: the items of a list, the values
\* of a map, none when the source is no node.
SourceElems(src) ==
    IF Tag(src) = "list" THEN Payload(src)
    ELSE IF Tag(src) = "map" THEN AsSeq([i \in 1..Len(Payload(src)) |-> Payload(src)[i][2]])
    ELSE <<>>

\* The template T injected with elem as its data context: a reference to b
\* becomes the element's b, a copy at key k the element's value at k, a
\* literal stays.
EachEntry(T, elem) ==
    <<"map", AsSeq([i \in 1..Len(Payload(T)) |->
        <<Payload(T)[i][1],
          IF Payload(T)[i][2] = Str("^b^") THEN TreeGet(elem, "b")
          ELSE IF Payload(T)[i][2] = Str("^$COPY^") THEN TreeGet(elem, Payload(T)[i][1])
          ELSE Payload(T)[i][2]>>])>>

\* C19: transform of a spec {x: [`$EACH`, 'a', T, ...]} does not raise and
\* puts at x a list with one entry for each element of the source at a, none
\* when the source is no node, in the order of the source; each entry is T
\* injected with its element as the data context, so that `b` in T is the
\* element's b; a further sibling after T in the command list changes nothing.
C19_EachEntries ==
    (pc = "done" /\ argSpec \in EachSpecs)
    => /\ raised = ""
       /\ Tag(TreeGet(retVal, "x")) = "list"
       /\ Let(SourceElems(TreeGet(argData, "a")), LAMBDA elems :
          Let(Payload(TreeGet(retVal, "x")), LAMBDA out :
              /\ Len(out) = Len(elems)
              /\ \A i \in 1..Len(elems) :
                    TreeEq(Compact(out[i]),
                           Compact(EachEntry(Payload(TreeGet(argSpec, "x"))[3], elems[i])))))

-----------------------------------------------------------------------------
(* Properties of the map form of $MERGE *)

\* The deep merge of over onto base: base where over has nothing; key by key
\* (index by index) where both are nodes of one kind; else over.
RECURSIVE DeepOver(_, _)
DeepOver(base, over) ==
    IF over = UNDEF THEN base
    ELSE IF Tag(base) = "map" /\ Tag(over) = "map"
    THEN Let(SelectSeq(KeyOrder, LAMBDA k : k \in TreeKeys(base) \cup TreeKeys(over)), LAMBDA ks :
         <<"map", AsSeq([i \in 1..Len(ks) |->
                    <<ks[i], DeepOver(TreeGet(base, ks[i]), TreeGet(over, ks[i]))>>])>>)
    ELSE IF Tag(base) = "list" /\ Tag(over) = "list"
    THEN <<"list", AsSeq([i \in 1..(IF Len(Payload(base)) > Len(Payload(over))
                                    THEN Len(Payload(base)) ELSE Len(Payload(over))) |->
                    IF i > Len(Payload(over)) THEN Payload(base)[i]
                    ELSE IF i > Len(Payload(base)) THEN Payload(over)[i]
                    ELSE DeepOver(Payload(base)[i], Payload(over)[i])])>>
    ELSE over

\* The map the spec holds at x, without its $MERGE key, and the arguments of
\* the $MERGE key after injection.
MergeParent ==
    <<"map", SelectSeq(Payload(TreeGet(argSpec, "x")), LAMBDA e : e[1] # "^$MERGE^")>>
MergeArgValues ==
    IF TreeGet(TreeGet(argSpec, "x"), "^$MERGE^") = Str("^a^")
    THEN << TreeGet(argData, "a") >>
    ELSE << TreeGet(argData, "a"), TreeGet(argData, "b") >>
MergedArgs ==
    IF Len(MergeArgValues) = 1 THEN MergeArgValues[1]
    ELSE DeepOver(MergeArgValues[1], MergeArgValues[2])

\* C20: transform of a spec {x: {`$MERGE`: args, ...literals}} whose
\* arguments resolve to maps does not raise; the map at x of the result has
\* no `$MERGE` key and is the deep merge of the arguments, a later one over
\* an earlier one, with the literals of x over them all.
C20_MergeOntoParent ==
    (/\ pc = "done" /\ argSpec \in MergeCmdSpecs
     /\ \A i \in 1..Len(MergeArgValues) : Tag(MergeArgValues[i]) = "map")
    => /\ raised = ""
       /\ "^$MERGE^" \notin TreeKeys(TreeGet(retVal, "x"))
       /\ TreeEq(TreeGet(retVal, "x"), DeepOver(MergedArgs, MergeParent))
-----------------------------------------------------------------------------
(* Properties of $MERGE with the empty string *)

\* The map that holds the $MERGE key, in the spec and in the result.
TopMergeParent(t) == IF "x" \in TreeKeys(argSpec) THEN TreeGet(t, "x") ELSE t

\* C21: transform of a spec whose map holds {`$MERGE`: ''} does not raise,
\* and for data that is a map the result's map holds every key of the
\* top-level data that the spec's map did not define, with the data's value,
\* and keeps its own literals.
C21_MergeTop ==
    (pc = "done" /\ argSpec \in TopMergeSpecs /\ Tag(argData) = "map")
    => /\ raised = ""
       /\ \A k \in TreeKeys(argData) \ TreeKeys(TopMergeParent(argSpec)) :
             TreeEq(TreeGet(TopMergeParent(retVal), k), TreeGet(argData, k))
       /\ \A k \in TreeKeys(TopMergeParent(argSpec)) \ {"^$MERGE^"} :
             TreeEq(TreeGet(TopMergeParent(retVal), k), TreeGet(TopMergeParent(argSpec), k))

-----------------------------------------------------------------------------
(* Termination *)

\* C22: every call of transform on finite trees comes to an end of its own:
\* no call runs into the recursion limit of the interpreter, whatever the
\* spec refers to with `$REF` and whatever $SPEC returns.
C22_Terminates == pc = "done" => raised # "RecursionError"


-----------------------------------------------------------------------------
(* Properties of the traversal *)

\* The steps of the trace at which the loop takes up a child: the starts
\* of the key:pre phase.
Visits == SelectSeq(trace, LAMBDA e : e.mode = "key:pre")

\* Key k1 of a node of the given kind is due before key k2: in a list by
\* index, in a map the keys without '$' in sorted order and then the keys
\* with '$' in sorted order.
DueBefore(kind, k1, k2) ==
    IF kind = "list" THEN StrInt(k1) < StrInt(k2)
    ELSE \/ ~HasDollar(k1) /\ HasDollar(k2)
         \/ HasDollar(k1) = HasDollar(k2) /\ Rank(k1) < Rank(k2)

\* C23: inject takes up the children of every node in order: in a map the
\* keys without '$' in ascending sorted order before every key with '$', the
\* keys with '$' in ascending sorted order, in a list the indexes ascending;
\* this holds for every key the loop takes up, the keys a command added to
\* the sibling list included.
C23_TraversalOrder ==
    pc = "done" =>
        \A i \in 1..Len(Visits) : \A j \in 1..Len(Visits) :
            (i < j /\ Visits[i].node = Visits[j].node)
                => DueBefore(Visits[i].kind, Visits[i].key, Visits[j].key)

\* The steps the loop took over the children of node n, in order.
StepsOf(n) == SelectSeq(trace, LAMBDA e : e.node = n)
TracedNodes == { trace[i].node : i \in 1..Len(trace) }
SameChild(e1, e2) == e1.key = e2.key /\ e1.keyI = e2.keyI

\* Step i of the steps s of one node is in its place: a child starts with
\* key:pre, and only when the child before it is done, through key:post or
\* through a null of its key:pre; val follows the key:pre of the same child
\* at once, key:post the val of the same child after the steps below the
\* child; and where the call did not raise, a phase that has to be followed
\* is followed.
PhaseInPlace(s, i) ==
    /\ s[i].mode = "key:pre" =>
          /\ i = 1 \/ s[i - 1].mode \in { "key:post", "null" }
          /\ raised = "" => i < Len(s) /\ s[i + 1].mode \in { "val", "null" }
    /\ s[i].mode = "null" =>
          /\ i > 1 /\ s[i - 1].mode = "key:pre" /\ SameChild(s[i - 1], s[i])
          /\ i < Len(s) => s[i + 1].mode = "key:pre"
    /\ s[i].mode = "val" =>
          /\ i > 1 /\ s[i - 1].mode = "key:pre" /\ SameChild(s[i - 1], s[i])
          /\ raised = "" => i < Len(s) /\ s[i + 1].mode = "key:post"
    /\ s[i].mode = "key:post" =>
          i > 1 /\ s[i - 1].mode = "val" /\ SameChild(s[i - 1], s[i])

\* C24: for each child of a node inject runs key:pre, val, key:post in this
\* order, all phases of a child before any phase of the next; when key:pre
\* returns null, neither val nor key:post runs for the child.
C24_Phases ==
    pc = "done" =>
        \A n \in TracedNodes : \A i \in 1..Len(StepsOf(n)) : PhaseInPlace(StepsOf(n), i)

\* A call that did not raise, with a child left at a null key:pre and a
\* child taken through all three phases.
C24_Witness ==
    /\ pc = "done" /\ raised = ""
    /\ \E i \in 1..Len(trace) : trace[i].mode = "null"
    /\ \E i \in 1..Len(trace) : trace[i].mode = "key:post"

\* C25: in every injection state, the states after a command has run
\* included, nodes has the same length as path.  The states are those the
\* loop of inject hands to a phase.
C25_NodesMatchPath ==
    pc = "done" => \A i \in 1..Len(trace) : trace[i].nodes = Len(trace[i].path)

-----------------------------------------------------------------------------
(* Properties of the error list *)

IsPrefix(s, t) == Len(s) <= Len(t) /\ SubSeq(t, 1, Len(s)) = s
MsgsOf(e) == AsSeq([i \in 1..Len(e.msgs) |-> Payload(e.msgs[i])])

-----------------------------------------------------------------------------
(* Properties of $CHILD *)

\* The element satisfies the type command T.
SatisfiesType(T, elem) ==
    IF T = Str("^$NUMBER^") THEN Tag(elem) = "num"
    ELSE Tag(elem) = "str" /\ Payload(elem) # ""

\* The elements of the data list that do not satisfy T.
FailingElems(T) == { i \in 1..Len(Payload(argData)) : ~SatisfiesType(T, Payload(argData)[i]) }

\* C27: for the shape [`$CHILD`, T] and a data list of n elements the
\* output list has n elements, and every element of the data, the one at
\* index 0 included, is validated against T: one error is recorded for each
\* element that does not satisfy T, none when all do.
C27_ChildList ==
    \A T \in { Str("^$NUMBER^"), Str("^$STRING^") } :
        (pc = "done" /\ argSpec = ChildListShape(T) /\ Tag(argData) = "list")
            => /\ raised \in { "", "ValueError" }
               /\ raised = "" => Tag(retVal) = "list" /\ Len(Payload(retVal)) = Len(Payload(argData))
               /\ Len(retErrs) = Cardinality(FailingElems(T))

-----------------------------------------------------------------------------
(* Properties of inject called by the caller *)

\* C28: inject(val, store), called without an injection state, does not
\* change the caller's val, which is after the call what it was before, and
\* the result is a structure apart from it.
C28_InjectKeepsVal ==
    (pc = "done" /\ callOp = "inject" /\ raised = "")
        => /\ specAfter = argSpec
           /\ ~retIsArg

-----------------------------------------------------------------------------
(* Properties of $DELETE in a list *)

\* The spec list of the call and the list that came out in its place.
DeleteSpecList == IF Tag(argSpec) = "list" THEN Payload(argSpec) ELSE Payload(TreeGet(argSpec, "x"))
DeleteOutList == IF Tag(argSpec) = "list" THEN retVal ELSE TreeGet(retVal, "x")

\* The elements of the spec list that are not `$DELETE`, each injected: a
\* reference ^k^ becomes the data at k.
Remaining(es) ==
    LET kept == SelectSeq(es, LAMBDA e : e # Str("^$DELETE^"))
    IN  AsSeq([i \in 1..Len(kept) |-> TreeGet(argData, FullRef(Payload(kept[i])))])

\* C29: when `$DELETE` takes an element out of a spec list, every element
\* that remains is still injected, once: the list that comes out holds the
\* injected remaining elements in their order, and no backquote reference.
C29_DeleteInList ==
    (pc = "done" /\ callOp = "transform"
        /\ (Tag(argSpec) = "list" \/ Tag(TreeGet(argSpec, "x")) = "list")
        /\ \E i \in 1..Len(DeleteSpecList) : DeleteSpecList[i] = Str("^$DELETE^"))
        => /\ raised = ""
           /\ ~HasBackquote(retVal)
           /\ DeleteOutList = <<"list", Remaining(DeleteSpecList)>>

-----------------------------------------------------------------------------
(* Properties of the value returned *)

\* C30: the value a call of inject by the caller returns, and with it the
\* value transform and validate return, is the value the root holder holds
\* under $TOP when the traversal ends, also when a command at the root of
\* the spec has put another value in the root slot.
C30_ReturnsTop ==
    (pc = "done" /\ raised = "" /\ callOp \in { "inject", "transform", "validate" })
        => retVal = topAfter
====
